---- MODULE Spec2Model ----
(***************************************************************************)
(* Model of the food diary bot (src/bot.py, src/database.py): the chat     *)
(* updates delivered to the handlers registered in main(), the add-entry   *)
(* conversation, the per-user session dictionary (context.user_data) and   *)
(* the meals / meal_photos tables; and of the parts the bot is built from: *)
(* the nutrient validator, the nutrition analyzer                          *)
(* (src/nutrition_analyzer.py) and the report generator.                   *)
(*                                                                         *)
(* A message text is a sequence of one-character strings, so that the      *)
(* regular expressions, the command parsing and int() are computed on the  *)
(* characters.  A dictionary is a function whose DOMAIN is the set of keys *)
(* present.                                                                *)
(***************************************************************************)
EXTENDS Integers, Sequences, FiniteSets, TLC

VARIABLES
    environ,      \* what the process finds when it starts: the environment
                  \* token, the platform, the font files, the database
    process,      \* how far main.py has come
    handlers,     \* the handlers registered with the application, in order
    members,      \* the (chat, user) pairs that send updates in this run
    inputs,       \* the messages they send in this run
    conv,         \* conv_handler's conversations: (chat, user) -> state
    norms_conv,   \* set_norms_conv_handler's conversations
    user_data,    \* context.user_data: user -> dictionary
    meals,        \* rows of table meals, in insertion order
    meal_photos,  \* rows of table meal_photos, in insertion order
    reply,        \* what the bot answered to the last update
    uploaded,     \* history: (chat, user) -> photos accepted in the
                  \* conversation in progress (0 when there is none)
    entered,      \* history: (chat, user) -> the keys of the meal slot and
                  \* of the values accepted in the conversation in progress
    norms_entered,    \* history: (chat, user) -> the norms accepted in the
                      \* set-norms conversation in progress
    value,            \* validate_nutrient: the text given
    nutrient_type,    \* validate_nutrient: the nutrient key given
    validation,       \* validate_nutrient: what the call returned
    user_norms,       \* the norms dictionary an analyzer is built from
    recommendations,  \* NutritionAnalyzer.recommendations
    totals,           \* analyze_daily_intake: the totals given
    analysis,         \* analyze_daily_intake: what the call returned
    new_values,       \* update_recommendations: the items of the dictionary
    updated,          \* update_recommendations: how the call ended
    generator,        \* PDFReportGenerator: user_id, date and pdf_path
    entries,          \* PDFReportGenerator.generate: the entries given
    files,            \* image path -> what the file system holds there
    document,         \* PDFReportGenerator.generate: what was built
    call,             \* database.add_entry: the arguments and how far it is
    connection,       \* the sqlite3 connection of the call: its open
                      \* transaction
    chat_data,        \* context.chat_data: chat -> dictionary
    job_queue         \* context.job_queue: the jobs scheduled, in order

startup == <<environ, process, handlers>>

session ==
    <<conv, norms_conv, user_data, meals, meal_photos, reply, uploaded, entered,
      norms_entered>>

diary == <<startup, members, inputs, session>>

validator == <<value, nutrient_type, validation>>

analyzer == <<user_norms, recommendations, totals, analysis>>

updater == <<new_values, updated>>

report == <<generator, entries, files, document>>

store == <<call, connection>>

scheduler == <<chat_data, job_queue>>

vars == <<diary, validator, analyzer, updater, report, store, scheduler>>

\* what a run of the started bot never changes
env == <<startup, members, inputs>>

(***************************************************************************)
(* Bounds of the model.                                                    *)
(***************************************************************************)
MaxPhotos == 2      \* photo paths one session accumulates
MaxMeals == 1       \* rows of table meals

Users == {"u1", "u2"}
Chats == {"c1", "c2"}
Keys == Chats \X Users

ChatOf(k) == k[1]

\* one session shared by all users
UserOf_shared(k) == "u1"

UserOf(k) == k[2]

(***************************************************************************)
(* Dictionaries.                                                           *)
(***************************************************************************)
EmptyDict == [x \in {} |-> 0]

Has(d, key) == key \in DOMAIN d

Put(d, key, v) == [x \in DOMAIN d \cup {key} |-> IF x = key THEN v ELSE d[x]]

Get(d, key, default) == IF key \in DOMAIN d THEN d[key] ELSE default

Pop(d, key) == [x \in DOMAIN d \ {key} |-> d[x]]

\* context.user_data.get('image_paths', [])
ImagePaths(d) == Get(d, "image_paths", <<>>)

(***************************************************************************)
(* constants.py: the states of the add-entry flow, the meal labels and the *)
(* per-nutrient limits.                                                    *)
(***************************************************************************)
END == "END"

ConversationState ==
    {"CHOOSE_MEAL", "UPLOAD_PHOTO", "ENTER_PROTEIN", "ENTER_VEGETABLES",
     "ENTER_FATS", "ENTER_FRUITS", "ENTER_DAIRY", "ENTER_GRAINS"}

MEAL_TIMES == { <<"O","b","e","d">>, <<"U","z","h","i","n">> }

NUTRIENT_LIMITS ==
    [n \in {"protein", "vegetables", "fats", "fruits", "dairy", "grains"}
        |-> IF n = "protein" THEN <<0, 2>> ELSE <<0, 1>>]

(***************************************************************************)
(* NutrientInputHandler.__init__: the nutrient states in order, each with  *)
(* its key.                                                                *)
(***************************************************************************)
nutrients ==
    << <<"ENTER_PROTEIN", "protein">>, <<"ENTER_VEGETABLES", "vegetables">>,
       <<"ENTER_FATS", "fats">>, <<"ENTER_FRUITS", "fruits">>,
       <<"ENTER_DAIRY", "dairy">>, <<"ENTER_GRAINS", "grains">> >>

NutrientStates == {nutrients[i][1] : i \in 1..Len(nutrients)}

NutrientKeys == {nutrients[i][2] : i \in 1..Len(nutrients)}

StateIndex(s) == CHOOSE i \in 1..Len(nutrients) : nutrients[i][1] = s

(***************************************************************************)
(* Texts.                                                                  *)
(***************************************************************************)
UpperCase ==
    <<"A","B","C","D","E","F","G","H","I","J","K","L","M",
      "N","O","P","Q","R","S","T","U","V","W","X","Y","Z">>

LowerCase ==
    <<"a","b","c","d","e","f","g","h","i","j","k","l","m",
      "n","o","p","q","r","s","t","u","v","w","x","y","z">>

Digits == <<"0","1","2","3","4","5","6","7","8","9">>

IsDigit(c) == \E i \in 1..Len(Digits) : Digits[i] = c

DigitValue(c) == (CHOOSE i \in 1..Len(Digits) : Digits[i] = c) - 1

\* str.lower() on one character, and on a text
LowerChar(c) ==
    IF \E i \in 1..Len(UpperCase) : UpperCase[i] = c
    THEN LowerCase[CHOOSE i \in 1..Len(UpperCase) : UpperCase[i] = c]
    ELSE c

Lower(t) == [i \in 1..Len(t) |-> LowerChar(t[i])]

\* the first position of t at or after `from` that holds a character of cs,
\* Len(t) + 1 when there is none
Find(t, cs, from) ==
    IF \E i \in from..Len(t) : t[i] \in cs
    THEN CHOOSE i \in from..Len(t) :
            /\ t[i] \in cs
            /\ \A j \in from..(i - 1) : t[j] \notin cs
    ELSE Len(t) + 1

Whitespace == {" "}

\* str.strip()
Strip(t) ==
    IF \A i \in 1..Len(t) : t[i] \in Whitespace
    THEN <<>>
    ELSE LET first == CHOOSE i \in 1..Len(t) :
                        /\ t[i] \notin Whitespace
                        /\ \A j \in 1..(i - 1) : t[j] \in Whitespace
             last == CHOOSE i \in 1..Len(t) :
                        /\ t[i] \notin Whitespace
                        /\ \A j \in (i + 1)..Len(t) : t[j] \in Whitespace
         IN  SubSeq(t, first, last)

(***************************************************************************)
(* int(text): surrounding whitespace is dropped, one sign is allowed, the  *)
(* rest is decimal digits, single underscores allowed between digits.      *)
(* Anything else raises ValueError (ok = FALSE).                           *)
(***************************************************************************)
RECURSIVE DigitsValue(_, _)
DigitsValue(t, acc) ==
    IF t = <<>> THEN acc
    ELSE IF Head(t) = "_" THEN DigitsValue(Tail(t), acc)
    ELSE DigitsValue(Tail(t), 10 * acc + DigitValue(Head(t)))

IsDigitString(t) ==
    /\ Len(t) >= 1
    /\ \A i \in 1..Len(t) : IsDigit(t[i]) \/ t[i] = "_"
    /\ IsDigit(t[1])
    /\ IsDigit(t[Len(t)])
    /\ \A i \in 1..(Len(t) - 1) : ~(t[i] = "_" /\ t[i + 1] = "_")

PyInt(t) ==
    LET s == Strip(t)
        signed == Len(s) >= 1 /\ s[1] \in {"+", "-"}
        body == IF signed THEN Tail(s) ELSE s
    IN  IF IsDigitString(body)
        THEN [ok |-> TRUE,
              value |-> IF signed /\ s[1] = "-"
                        THEN 0 - DigitsValue(body, 0)
                        ELSE DigitsValue(body, 0)]
        ELSE [ok |-> FALSE, value |-> 0]

(***************************************************************************)
(* Updates: a text message or a photo message sent by a member.            *)
(***************************************************************************)
BotUsername == <<"b","o","t">>

T_add == <<"/","a","d","d">>
T_add_bot == <<"/","a","d","d","@","b","o","t">>
T_cancel == <<"/","c","a","n","c","e","l">>
T_cancel_bot == <<"/","c","a","n","c","e","l","@","b","o","t">>
T_done == <<"/","d","o","n","e">>
T_set_norms == <<"/","s","e","t","_","n","o","r","m","s">>
T_set_norms_bot == <<"/","s","e","t","_","n","o","r","m","s","@","b","o","t">>
T_reminders == <<"/","r","e","m","i","n","d","e","r","s">>

Texts ==
    { T_add, T_add_bot, T_cancel, T_cancel_bot, T_done,
      T_set_norms, T_set_norms_bot, T_reminders,
      <<"O","b","e","d">>, <<"U","z","h","i","n">>, <<"h","i">>,
      <<"1">>, <<"2">>, <<"-","1">>, <<"+","1">> }

Photo == [kind |-> "photo", text |-> <<>>]

TextMessage(t) == [kind |-> "text", text |-> t]

Messages == {TextMessage(t) : t \in Texts} \cup {Photo}

(***************************************************************************)
(* telegram.ext.filters, as used in main().                                *)
(***************************************************************************)
\* filters.TEXT
FilterText(m) == m.kind = "text" /\ m.text # <<>>

\* filters.PHOTO
FilterPhoto(m) == m.kind = "photo"

\* filters.Regex('^<text>$')
FilterRegexExact(m, t) == m.kind = "text" /\ m.text = t

\* the bot_command entity at offset 0: "/" and the word up to the first blank
HasCommandEntity(m) ==
    /\ m.kind = "text"
    /\ Len(m.text) >= 2
    /\ m.text[1] = "/"
    /\ LowerChar(m.text[2]) \in {LowerCase[i] : i \in 1..Len(LowerCase)}

\* filters.COMMAND
FilterCommand(m) == HasCommandEntity(m)

\* CommandHandler(name, ...).check_update: the command word, case folded,
\* optionally followed by @ and this bot's username
CommandMatches(m, name) ==
    /\ HasCommandEntity(m)
    /\ LET entityEnd == Find(m.text, Whitespace, 1) - 1
           command == SubSeq(m.text, 2, entityEnd)
           at == Find(command, {"@"}, 1)
           word == SubSeq(command, 1, at - 1)
           bot == IF at <= Len(command)
                  THEN SubSeq(command, at + 1, Find(command, {"@"}, at + 1) - 1)
                  ELSE BotUsername
       IN  Lower(word) = name /\ Lower(bot) = Lower(BotUsername)

(***************************************************************************)
(* What the filters, the command handlers and int() make of each update;   *)
(* computed once per update.                                               *)
(***************************************************************************)
Parsed ==
    [m \in Messages |->
        [text |-> FilterText(m),
         photo |-> FilterPhoto(m),
         command |-> FilterCommand(m),
         add |-> CommandMatches(m, <<"a","d","d">>),
         cancel |-> CommandMatches(m, <<"c","a","n","c","e","l">>),
         set_norms |-> CommandMatches(m, <<"s","e","t","_","n","o","r","m","s">>),
         lower |-> Lower(m.text),
         int |-> PyInt(m.text)]]

(***************************************************************************)
(* main(): the handlers of group 0 in registration order; the first whose  *)
(* check_update accepts the update handles it, and no other does.          *)
(***************************************************************************)
\* conv_handler.check_update in state s
ConvRoute(s, m) ==
    IF s = END
    THEN IF Parsed[m].add THEN "entry_add" ELSE "none"
    ELSE IF s = "CHOOSE_MEAL" /\ Parsed[m].text /\ ~Parsed[m].command
            THEN "choose_meal"
    ELSE IF /\ s = "UPLOAD_PHOTO"
            /\ \/ Parsed[m].photo
               \/ FilterRegexExact(m, T_done)
               \/ Parsed[m].text /\ ~Parsed[m].command
            THEN "upload_photos"
    ELSE IF s \in NutrientStates /\ Parsed[m].text /\ ~Parsed[m].command
            THEN "handle_input"
    ELSE IF Parsed[m].cancel
            THEN "fallback_cancel"
    ELSE "none"

\* the states of the set-norms conversation and the key each step stores
norm_steps ==
    << <<"SET_PROTEIN", "protein_daily">>,
       <<"SET_VEGETABLES", "vegetables_daily">>,
       <<"SET_FATS", "fats_daily">>,
       <<"SET_FRUITS", "fruits_daily">>,
       <<"SET_DAIRY", "dairy_daily">>,
       <<"SET_GRAINS", "grains_daily">> >>

NormStates == {norm_steps[i][1] : i \in 1..Len(norm_steps)}

NormIndex(s) == CHOOSE i \in 1..Len(norm_steps) : norm_steps[i][1] = s

\* set_norms_conv_handler.check_update in state n
NormsRoute(n, m) ==
    IF n = END
    THEN IF Parsed[m].set_norms THEN "entry_set_norms" ELSE "none"
    ELSE IF Parsed[m].text /\ ~Parsed[m].command
            THEN "set_norm"
    ELSE IF Parsed[m].cancel
            THEN "norms_fallback_cancel"
    ELSE "none"

\* the plain-text handlers and conv_handler, which come before
\* set_norms_conv_handler
Route(s, m) ==
    IF FilterRegexExact(m, T_add) THEN "message_add"
    ELSE IF FilterRegexExact(m, T_set_norms) THEN "message_set_norms"
    ELSE IF FilterRegexExact(m, T_reminders) THEN "message_reminders"
    ELSE IF FilterRegexExact(m, T_cancel) THEN "message_cancel"
    ELSE ConvRoute(s, m)

(***************************************************************************)
(* The handlers.  `ret` is the value the handler returns ("RAISE" when it  *)
(* raises); each handler states what it does to the session, the store and *)
(* the reply.                                                              *)
(***************************************************************************)
Reply(k, text, about) == [to |-> k, text |-> text, about |-> about]

NoReply(k) == Reply(k, "none", "")

DaySeconds == 86400

\* datetime.now(MOSCOW_TZ) reads the wall clock: one of two seconds
Clock == {0, 1}

\* the readings the clock can give once the session holds these photo paths:
\* the clock does not run backwards
ClockAfter(image_paths) ==
    {t \in Clock : \A i \in 1..Len(image_paths) : image_paths[i][2] <= t}

\* strftime("%Y-%m-%d")
Date(t) == t \div DaySeconds

\* database.add_entry: one meals row, then one meal_photos row per path
add_entry(user_id, date, meal_time, values, image_paths, timestamp) ==
    LET meal_id == Len(meals) + 1
    IN  /\ meals' = Append(meals,
                [user_id |-> user_id, date |-> date, meal_time |-> meal_time,
                 protein |-> values.protein, vegetables |-> values.vegetables,
                 fats |-> values.fats, fruits |-> values.fruits,
                 dairy |-> values.dairy, grains |-> values.grains,
                 timestamp |-> timestamp])
        /\ meal_photos' = meal_photos \o
                [i \in 1..Len(image_paths) |->
                    [meal_id |-> meal_id, image_path |-> image_paths[i]]]

add_entry_start(k, m, ret) ==
    /\ reply' = Reply(k, "choose_meal", "")
    /\ ret = "CHOOSE_MEAL"
    /\ UNCHANGED <<user_data, meals, meal_photos>>

\* choose_meal without the check against MEAL_TIMES
choose_meal_unchecked(k, m, ret) ==
    /\ user_data' = [user_data EXCEPT ![UserOf(k)] =
            Put(Put(@, "meal_time", m.text), "current_state", "UPLOAD_PHOTO")]
    /\ reply' = Reply(k, "send_photo", "")
    /\ ret = "UPLOAD_PHOTO"
    /\ UNCHANGED <<meals, meal_photos>>

choose_meal(k, m, ret) ==
    LET meal_time == m.text
        ud == user_data[UserOf(k)]
    IN  /\ IF meal_time \notin MEAL_TIMES
           THEN /\ reply' = Reply(k, "invalid_meal", "")
                /\ ret = "CHOOSE_MEAL"
                /\ UNCHANGED user_data
           ELSE /\ user_data' = [user_data EXCEPT ![UserOf(k)] =
                        Put(Put(ud, "meal_time", meal_time),
                            "current_state", "UPLOAD_PHOTO")]
                /\ reply' = Reply(k, "send_photo", "")
                /\ ret = "UPLOAD_PHOTO"
        /\ UNCHANGED <<meals, meal_photos>>

\* upload_photos, the /done branch
upload_done(k, ret) ==
    /\ user_data' = [user_data EXCEPT ![UserOf(k)] =
            Put(@, "current_state", "ENTER_PROTEIN")]
    /\ reply' = Reply(k, "enter_amount", "protein")
    /\ ret = "ENTER_PROTEIN"

\* a photo branch that adds the path to the session before the file is
\* written
upload_photo_listed_before_written(k, ret) ==
    LET ud == user_data[UserOf(k)]
    IN  \E downloaded \in BOOLEAN, saved \in BOOLEAN :
            IF ~downloaded
            THEN /\ reply' = Reply(k, "photo_download_error", "")
                 /\ ret = "UPLOAD_PHOTO"
                 /\ UNCHANGED user_data
            ELSE \E timestamp \in ClockAfter(ImagePaths(ud)) :
                 LET image_path == <<UserOf(k), timestamp>>
                 IN  /\ user_data' = [user_data EXCEPT ![UserOf(k)] =
                            Put(ud, "image_paths",
                                Append(ImagePaths(ud), image_path))]
                     /\ reply' = Reply(k, IF saved THEN "photo_saved"
                                          ELSE "photo_save_error", "")
                     /\ ret = "UPLOAD_PHOTO"

\* upload_photos, the photo branch: the download or the write may fail
upload_photo(k, ret) ==
    LET ud == user_data[UserOf(k)]
    IN  \E downloaded \in BOOLEAN, saved \in BOOLEAN :
            IF ~downloaded
            THEN /\ reply' = Reply(k, "photo_download_error", "")
                 /\ ret = "UPLOAD_PHOTO"
                 /\ UNCHANGED user_data
            ELSE \E timestamp \in ClockAfter(ImagePaths(ud)) :
                 LET image_path == <<UserOf(k), timestamp>>
                 IN  IF saved
                     THEN /\ user_data' = [user_data EXCEPT ![UserOf(k)] =
                                Put(ud, "image_paths",
                                    Append(ImagePaths(ud), image_path))]
                          /\ reply' = Reply(k, "photo_saved", "")
                          /\ ret = "UPLOAD_PHOTO"
                     ELSE /\ reply' = Reply(k, "photo_save_error", "")
                          /\ ret = "UPLOAD_PHOTO"
                          /\ UNCHANGED user_data

\* upload_photos, the last branch
upload_other(k, ret) ==
    /\ reply' = Reply(k, "send_photo_or_done", "")
    /\ ret = "UPLOAD_PHOTO"
    /\ UNCHANGED user_data

\* upload_photos taking every text for /done
upload_photos_any_text_is_done(k, m, ret) ==
    /\ IF m.text # <<>>
       THEN upload_done(k, ret)
       ELSE IF m.kind = "photo"
       THEN upload_photo(k, ret)
       ELSE upload_other(k, ret)
    /\ UNCHANGED <<meals, meal_photos>>

upload_photos(k, m, ret) ==
    /\ IF m.text # <<>> /\ Parsed[m].lower = T_done
       THEN upload_done(k, ret)
       ELSE IF m.kind = "photo"
       THEN upload_photo(k, ret)
       ELSE upload_other(k, ret)
    /\ UNCHANGED <<meals, meal_photos>>

\* a validator that takes the limits as exclusive
validate_exclusive(parsed, kind) ==
    LET min_val == NUTRIENT_LIMITS[kind][1]
        max_val == NUTRIENT_LIMITS[kind][2]
    IN  IF ~parsed.ok
        THEN [is_valid |-> FALSE, value |-> 0, error |-> "not_an_integer"]
        ELSE IF ~(min_val < parsed.value /\ parsed.value < max_val)
        THEN [is_valid |-> FALSE, value |-> 0, error |-> "out_of_range"]
        ELSE [is_valid |-> TRUE, value |-> parsed.value, error |-> "none"]

\* NutrientInputHandler.validate_nutrient, given what int(value) made of
\* the text
validate(parsed, kind) ==
    LET min_val == NUTRIENT_LIMITS[kind][1]
        max_val == NUTRIENT_LIMITS[kind][2]
    IN  IF ~parsed.ok
        THEN [is_valid |-> FALSE, value |-> 0, error |-> "not_an_integer"]
        ELSE IF ~(min_val <= parsed.value /\ parsed.value <= max_val)
        THEN [is_valid |-> FALSE, value |-> 0, error |-> "out_of_range"]
        ELSE [is_valid |-> TRUE, value |-> parsed.value, error |-> "none"]

\* NutrientInputHandler.validate_nutrient on the text of update m
validate_nutrient(m, kind) == validate(Parsed[m].int, kind)

\* NutrientInputHandler._save_entry; stored is FALSE when the store raises
save_entry(k, ud, stored, ret) ==
    IF ~Has(ud, "meal_time") \/ ~stored
    THEN /\ ret = "RAISE"
         /\ reply' = NoReply(k)
         /\ user_data' = [user_data EXCEPT ![UserOf(k)] = ud]
         /\ UNCHANGED <<meals, meal_photos>>
    ELSE /\ \E timestamp \in ClockAfter(ImagePaths(ud)) :
                add_entry(UserOf(k), Date(timestamp), ud["meal_time"],
                    [n \in NutrientKeys |-> Get(ud, n, 0)],
                    ImagePaths(ud), timestamp)
         /\ reply' = Reply(k, "entry_added", "")
         /\ user_data' = [user_data EXCEPT ![UserOf(k)] = Pop(ud, "image_paths")]
         /\ ret = END

\* NutrientInputHandler.handle_input
handle_input(k, m, ret) ==
    LET ud == user_data[UserOf(k)]
    IN  IF ~Has(ud, "current_state") \/ Get(ud, "current_state", END) \notin NutrientStates
        THEN /\ ret = "RAISE"
             /\ reply' = NoReply(k)
             /\ UNCHANGED <<user_data, meals, meal_photos>>
        ELSE LET current_state == ud["current_state"]
                 current_idx == StateIndex(current_state)
                 nutrient_key == nutrients[current_idx][2]
                 v == validate_nutrient(m, nutrient_key)
                 stored_ud == Put(ud, nutrient_key, v.value)
             IN  IF ~v.is_valid
                 THEN /\ reply' = Reply(k, v.error, nutrient_key)
                      /\ ret = current_state
                      /\ UNCHANGED <<user_data, meals, meal_photos>>
                 ELSE IF current_idx = Len(nutrients)
                 THEN \E stored \in BOOLEAN : save_entry(k, stored_ud, stored, ret)
                 ELSE LET next_state == nutrients[current_idx + 1][1]
                      IN  /\ user_data' = [user_data EXCEPT ![UserOf(k)] =
                                  Put(stored_ud, "current_state", next_state)]
                          /\ reply' = Reply(k, "enter_amount",
                                            nutrients[current_idx + 1][2])
                          /\ ret = next_state
                          /\ UNCHANGED <<meals, meal_photos>>

cancel(k, m, ret) ==
    /\ reply' = Reply(k, "cancelled", "")
    /\ ret = END
    /\ UNCHANGED <<user_data, meals, meal_photos>>

(***************************************************************************)
(* Delivery of one update.                                                 *)
(***************************************************************************)
Returns == ConversationState \cup {END, "RAISE"}

\* a conversation handler that ends the conversation when the handler raises
ConvUpdate_ending_on_raise(k, ret) ==
    conv' = IF ret = "RAISE" THEN [conv EXCEPT ![k] = END]
            ELSE [conv EXCEPT ![k] = ret]

\* ConversationHandler.handle_update: the returned state becomes the
\* conversation's state; a handler that raises leaves it as it was
ConvUpdate(k, ret) ==
    conv' = IF ret = "RAISE" THEN conv ELSE [conv EXCEPT ![k] = ret]

\* the history variable after a step of conversation k
Uploaded(k) ==
    uploaded' = [uploaded EXCEPT ![k] =
        IF conv'[k] = END THEN 0
        ELSE IF ImagePaths(user_data'[UserOf(k)]) # ImagePaths(user_data[UserOf(k)])
        THEN @ + 1
        ELSE @]

\* the history variable after a step of conversation k: nothing when the
\* conversation has ended or starts again, the meal slot once it is chosen,
\* and the key of each value accepted
Entered(k) ==
    LET before == conv[k]
        after == conv'[k]
    IN  entered' = [entered EXCEPT ![k] =
            IF after \in {END, "CHOOSE_MEAL"} THEN {}
            ELSE IF before = "CHOOSE_MEAL" /\ after = "UPLOAD_PHOTO"
            THEN @ \cup {"meal_time"}
            ELSE IF before \in NutrientStates /\ after \in NutrientStates
                    /\ after # before /\ StateIndex(after) > 1
            THEN @ \cup {nutrients[StateIndex(after) - 1][2]}
            ELSE @]

\* what the environment may send without leaving the bounds of the model
WithinBounds(k, m) ==
    /\ m.kind = "photo" =>
            Len(ImagePaths(user_data[UserOf(k)])) < MaxPhotos
    /\ Len(meals) < MaxMeals

\* MessageHandler(filters.Regex('^/add$'), add_entry_start)
MessageAdd(k, m) ==
    /\ Route(conv[k], m) = "message_add"
    /\ \E ret \in Returns : add_entry_start(k, m, ret)
    /\ UNCHANGED <<env, conv, uploaded, entered>>

\* MessageHandler(filters.Regex('^/cancel$'), cancel)
MessageCancel(k, m) ==
    /\ Route(conv[k], m) = "message_cancel"
    /\ \E ret \in Returns : cancel(k, m, ret)
    /\ UNCHANGED <<env, conv, uploaded, entered>>

\* conv_handler, entry point CommandHandler('add', add_entry_start)
EntryAdd(k, m) ==
    /\ Route(conv[k], m) = "entry_add"
    /\ \E ret \in Returns : add_entry_start(k, m, ret) /\ ConvUpdate(k, ret)
    /\ Uploaded(k)
    /\ Entered(k)
    /\ UNCHANGED env

ChooseMeal(k, m) ==
    /\ Route(conv[k], m) = "choose_meal"
    /\ \E ret \in Returns : choose_meal(k, m, ret) /\ ConvUpdate(k, ret)
    /\ Uploaded(k)
    /\ Entered(k)
    /\ UNCHANGED env

UploadPhotos(k, m) ==
    /\ Route(conv[k], m) = "upload_photos"
    /\ \E ret \in Returns : upload_photos(k, m, ret) /\ ConvUpdate(k, ret)
    /\ Uploaded(k)
    /\ Entered(k)
    /\ UNCHANGED env

HandleInput(k, m) ==
    /\ Route(conv[k], m) = "handle_input"
    /\ \E ret \in Returns : handle_input(k, m, ret) /\ ConvUpdate(k, ret)
    /\ Uploaded(k)
    /\ Entered(k)
    /\ UNCHANGED env

\* conv_handler, fallback CommandHandler('cancel', cancel)
FallbackCancel(k, m) ==
    /\ Route(conv[k], m) = "fallback_cancel"
    /\ \E ret \in Returns : cancel(k, m, ret) /\ ConvUpdate(k, ret)
    /\ Uploaded(k)
    /\ Entered(k)
    /\ UNCHANGED env

\* no handler accepts the update
NoHandler(k, m) ==
    /\ Route(conv[k], m) = "none"
    /\ NormsRoute(norms_conv[k], m) = "none"
    /\ reply' = NoReply(k)
    /\ UNCHANGED <<env, conv, user_data, meals, meal_photos, uploaded, entered>>

Deliver(k, m) ==
    \/ MessageAdd(k, m)
    \/ MessageCancel(k, m)
    \/ EntryAdd(k, m)
    \/ ChooseMeal(k, m)
    \/ UploadPhotos(k, m)
    \/ HandleInput(k, m)
    \/ FallbackCancel(k, m)
    \/ NoHandler(k, m)

(***************************************************************************)
(* Start of the process: main.py imports bot, which imports config; then  *)
(* init_db() and bot.main(), which builds the application, registers the  *)
(* handlers and polls.                                                     *)
(***************************************************************************)
\* os.getenv('TELEGRAM_BOT_TOKEN'): no variable, an empty one, a token
Tokens == {"None", "", "token"}

\* platform.system()
Systems == {"Windows", "Darwin", "Linux"}

\* config.py: the font path of each platform
FONT_PATH(system) ==
    IF system = "Windows" THEN "C:/Windows/Fonts/Arial.ttf"
    ELSE IF system = "Darwin" THEN "/Library/Fonts/Arial.ttf"
    ELSE "/usr/share/fonts/truetype/dejavu/DejaVuSans.ttf"

Environs ==
    [TELEGRAM_BOT_TOKEN : Tokens,
     system : Systems,
     fonts : SUBSET {FONT_PATH(s) : s \in Systems},
     database : BOOLEAN]

\* bot.main(): the handlers in the order of add_handler, the error handler
\* last
Handlers ==
    <<"start", "add", "view", "stats", "set_norms", "reminders", "cancel",
      "conv_handler", "set_norms_conv_handler", "error_handler">>

\* import config: a token that is None or empty raises ValueError
ImportConfig ==
    /\ process = "import"
    /\ process' = IF environ.TELEGRAM_BOT_TOKEN \in {"None", ""}
                  THEN "exited" ELSE "init_db"
    /\ UNCHANGED <<environ, handlers>>

\* main.main(): init_db(); what it raises is not caught
InitDb ==
    /\ process = "init_db"
    /\ process' = IF environ.database THEN "build" ELSE "exited"
    /\ UNCHANGED <<environ, handlers>>

\* ApplicationBuilder().token(TELEGRAM_BOT_TOKEN).build()
BuildApplication ==
    /\ process = "build"
    /\ process' = "add_handlers"
    /\ UNCHANGED <<environ, handlers>>

\* application.add_handler(...), application.add_error_handler(...)
AddHandler ==
    /\ process = "add_handlers"
    /\ Len(handlers) < Len(Handlers)
    /\ handlers' = Append(handlers, Handlers[Len(handlers) + 1])
    /\ UNCHANGED <<environ, process>>

\* application.run_polling()
RunPolling ==
    /\ process = "add_handlers"
    /\ Len(handlers) = Len(Handlers)
    /\ process' = "polling"
    /\ UNCHANGED <<environ, handlers>>

\* the bot is started and polls
Started ==
    /\ environ = [TELEGRAM_BOT_TOKEN |-> "token", system |-> "Linux",
                  fonts |-> {FONT_PATH("Linux")}, database |-> TRUE]
    /\ process = "polling"
    /\ handlers = Handlers

\* a result variable: before the call, after the call returned a value,
\* after the call raised an exception
NotCalled == [status |-> "not_called"]

Returned(v) == [status |-> "returned", value |-> v]

Raised(e) == [status |-> "raised", error |-> e]

\* the parts a run does not use
ValidatorIdle ==
    /\ value = <<>>
    /\ nutrient_type = "protein"
    /\ validation = NotCalled

AnalyzerIdle ==
    /\ user_norms = EmptyDict
    /\ recommendations = EmptyDict
    /\ totals = EmptyDict
    /\ analysis = NotCalled

UpdaterIdle ==
    /\ new_values = <<>>
    /\ updated = NotCalled

ReportIdle ==
    /\ generator = EmptyDict
    /\ entries = <<>>
    /\ files = EmptyDict
    /\ document = NotCalled

\* no connection is open
NoConnection == [open |-> FALSE, meals |-> <<>>, meal_photos |-> <<>>]

StoreIdle ==
    /\ call = NotCalled
    /\ connection = NoConnection

SchedulerIdle ==
    /\ chat_data = [c \in Chats |-> EmptyDict]
    /\ job_queue = <<>>

\* no conversation, empty sessions, an empty store
InitSession ==
    /\ conv = [k \in Keys |-> END]
    /\ norms_conv = [k \in Keys |-> END]
    /\ entered = [k \in Keys |-> {}]
    /\ norms_entered = [k \in Keys |-> EmptyDict]
    /\ user_data = [u \in Users |-> EmptyDict]
    /\ meals = <<>>
    /\ meal_photos = <<>>
    /\ reply = NoReply(<<"c1", "u1">>)
    /\ uploaded = [k \in Keys |-> 0]

InitState == Started /\ InitSession

Next ==
    \/ \E k \in members, m \in inputs : WithinBounds(k, m) /\ MessageAdd(k, m)
          /\ UNCHANGED <<norms_conv, norms_entered, validator, analyzer, updater, report, store, scheduler>>
    \/ \E k \in members, m \in inputs : WithinBounds(k, m) /\ MessageCancel(k, m)
          /\ UNCHANGED <<norms_conv, norms_entered, validator, analyzer, updater, report, store, scheduler>>
    \/ \E k \in members, m \in inputs : WithinBounds(k, m) /\ EntryAdd(k, m)
          /\ UNCHANGED <<norms_conv, norms_entered, validator, analyzer, updater, report, store, scheduler>>
    \/ \E k \in members, m \in inputs : WithinBounds(k, m) /\ ChooseMeal(k, m)
          /\ UNCHANGED <<norms_conv, norms_entered, validator, analyzer, updater, report, store, scheduler>>
    \/ \E k \in members, m \in inputs : WithinBounds(k, m) /\ UploadPhotos(k, m)
          /\ UNCHANGED <<norms_conv, norms_entered, validator, analyzer, updater, report, store, scheduler>>
    \/ \E k \in members, m \in inputs : WithinBounds(k, m) /\ HandleInput(k, m)
          /\ UNCHANGED <<norms_conv, norms_entered, validator, analyzer, updater, report, store, scheduler>>
    \/ \E k \in members, m \in inputs : WithinBounds(k, m) /\ FallbackCancel(k, m)
          /\ UNCHANGED <<norms_conv, norms_entered, validator, analyzer, updater, report, store, scheduler>>
    \/ \E k \in members, m \in inputs : WithinBounds(k, m) /\ NoHandler(k, m)
          /\ UNCHANGED <<norms_conv, norms_entered, validator, analyzer, updater, report, store, scheduler>>

\* one user in one chat
Init ==
    /\ members = {<<"c1", "u1">>}
    /\ inputs = {Photo} \cup {TextMessage(t) : t \in
                    {T_add, T_add_bot, T_cancel, T_cancel_bot, T_done,
                     <<"O","b","e","d">>, <<"U","z","h","i","n">>, <<"h","i">>,
                     <<"1">>, <<"-","1">>, <<"+","1">>}}
    /\ InitState
    /\ ValidatorIdle /\ AnalyzerIdle /\ UpdaterIdle /\ ReportIdle /\ StoreIdle
    /\ SchedulerIdle

Spec == Init /\ [][Next]_vars

\* one user in two chats, sending commands, meal labels and numbers
InitChats ==
    /\ members = {<<"c1", "u1">>, <<"c2", "u1">>}
    /\ inputs = {TextMessage(t) : t \in
                    {T_add, T_add_bot, T_cancel, T_cancel_bot, T_done,
                     <<"O","b","e","d">>, <<"1">>, <<"h","i">>}}
    /\ InitState
    /\ ValidatorIdle /\ AnalyzerIdle /\ UpdaterIdle /\ ReportIdle /\ StoreIdle
    /\ SchedulerIdle

SpecChats == InitChats /\ [][Next]_vars

(***************************************************************************)
(* Vocabulary of the properties.                                           *)
(***************************************************************************)
\* a text message that is not a command
TextInput(m) == Parsed[m].text /\ ~Parsed[m].command

\* the nutrient key of a nutrient state, and the state that follows it
NutrientKeyOf(s) == nutrients[StateIndex(s)][2]

NextState(s) ==
    IF StateIndex(s) = Len(nutrients) THEN END
    ELSE nutrients[StateIndex(s) + 1][1]

\* the session holds none of the flow's fields
FlowDataCleared(ud) ==
    DOMAIN ud \cap ({"meal_time", "image_paths"} \cup NutrientKeys) = {}

SessionCleared(ud) == FlowDataCleared(ud) /\ ~Has(ud, "current_state")

\* this step wrote an entry while handling an update of conversation k
Saved(k) == Len(meals') = Len(meals) + 1 /\ reply'.to = k

(***************************************************************************)
(* C1.  An entry is written only by a flow whose EnterGrains step          *)
(* succeeds: the conversation that handles the update which writes the     *)
(* entry is in state EnterGrains, having passed the five states before it. *)
(***************************************************************************)
C1_EntryOnlyFromEnterGrains ==
    [][\A k \in Keys : Saved(k) => conv[k] = "ENTER_GRAINS"]_vars

(***************************************************************************)
(* C2.  The /add command, delivered while the sender has no flow in        *)
(* progress, makes the add-entry conversation active in ChooseMeal.        *)
(***************************************************************************)
C2_AddStartsConversation ==
    [][\A k \in Keys, m \in Messages :
        (conv[k] = END /\ Parsed[m].add /\ Deliver(k, m))
            => conv'[k] = "CHOOSE_MEAL"]_vars

(***************************************************************************)
(* C3.  The /add command, delivered while a flow is in progress, restarts  *)
(* the flow in ChooseMeal and discards the partial flow's meal slot, photo *)
(* paths and nutrient values.                                              *)
(***************************************************************************)
C3_AddRestartsFlow ==
    [][\A k \in Keys, m \in Messages :
        (conv[k] # END /\ Parsed[m].add /\ Deliver(k, m))
            => /\ conv'[k] = "CHOOSE_MEAL"
               /\ FlowDataCleared(user_data'[UserOf(k)])]_vars

(***************************************************************************)
(* C4.  The /cancel command, delivered in a non-terminal state of the      *)
(* flow, ends the conversation and writes no entry.                        *)
(***************************************************************************)
C4_CancelEndsFlow ==
    [][\A k \in Keys, m \in Messages :
        (conv[k] # END /\ Parsed[m].cancel /\ Deliver(k, m))
            => /\ conv'[k] = END
               /\ meals' = meals
               /\ meal_photos' = meal_photos]_vars

(***************************************************************************)
(* C5.  When a flow reaches a terminal state, by save or by cancellation,  *)
(* the session holds no meal slot, no photo paths, no nutrient value and   *)
(* no current state.                                                       *)
(***************************************************************************)
C5_TerminalClearsSession ==
    [][\A k \in Keys :
        (conv[k] # END /\ conv'[k] = END)
            => SessionCleared(user_data'[UserOf(k)])]_vars

(***************************************************************************)
(* C6.  In ChooseMeal a text that is no meal label keeps the state, leaves *)
(* the session as it was and is answered with the error prompt; a text     *)
(* that is a label is stored as meal_time and the flow is in UploadPhoto.  *)
(***************************************************************************)
C6_ChooseMeal ==
    [][\A k \in Keys, m \in Messages :
        (conv[k] = "CHOOSE_MEAL" /\ TextInput(m) /\ Deliver(k, m))
            => IF m.text \in MEAL_TIMES
               THEN /\ conv'[k] = "UPLOAD_PHOTO"
                    /\ Has(user_data'[UserOf(k)], "meal_time")
                    /\ user_data'[UserOf(k)]["meal_time"] = m.text
               ELSE /\ conv'[k] = "CHOOSE_MEAL"
                    /\ user_data' = user_data
                    /\ reply' = Reply(k, "invalid_meal", "")]_vars

\* a text that is no label was refused: the flow is still in ChooseMeal and
\* the session holds no meal slot
C6_Witness ==
    /\ reply.text = "invalid_meal"
    /\ conv[reply.to] = "CHOOSE_MEAL"
    /\ ~Has(user_data[UserOf(reply.to)], "meal_time")

(***************************************************************************)
(* C7.  When the flow leaves UploadPhoto for EnterProtein, the session's   *)
(* photo accumulator holds exactly the N photos accepted in this flow.     *)
(***************************************************************************)
C7_ExactlyNPhotos ==
    [][\A k \in Keys :
        (conv[k] = "UPLOAD_PHOTO" /\ conv'[k] = "ENTER_PROTEIN")
            => Len(ImagePaths(user_data'[UserOf(k)])) = uploaded[k]]_vars

C9_NutrientStep ==
    [][\A k \in Keys, m \in Messages :
        (conv[k] \in NutrientStates /\ TextInput(m) /\ Deliver(k, m))
            => LET key == NutrientKeyOf(conv[k])
                   v == validate_nutrient(m, key)
                   ud == user_data'[UserOf(k)]
               IN  IF v.is_valid
                   THEN /\ Has(ud, key)
                        /\ ud[key] = v.value
                        /\ \/ conv'[k] = NextState(conv[k])
                           \/ conv[k] = "ENTER_GRAINS" /\ reply' = NoReply(k)
                        /\ conv'[k] = END => Saved(k)
                   ELSE /\ conv'[k] = conv[k]
                        /\ user_data' = user_data
                        /\ meals' = meals
                        /\ reply'.text \in {"not_an_integer", "out_of_range"}
                        /\ reply'.about = key]_vars

(***************************************************************************)
(* C10.  A flow in which no photo was uploaded and whose six values were   *)
(* accepted writes one entry with the session's meal label and six values  *)
(* and with an empty photo list, and ends.                                 *)
(***************************************************************************)
C10_NoPhotosEntry ==
    [][\A k \in Keys :
        (Saved(k) /\ uploaded[k] = 0)
            => /\ meal_photos' = meal_photos
               /\ conv'[k] = END
               /\ LET row == meals'[Len(meals')]
                      ud == user_data[UserOf(k)]
                  IN  /\ row.meal_time = ud["meal_time"]
                      /\ \A n \in NutrientKeys \ {"grains"} : row[n] = ud[n]]_vars

(***************************************************************************)
(* C11.  In a state that expects text (ChooseMeal and the six nutrient     *)
(* states) a photo is treated like a validation failure: the state of the  *)
(* flow is unchanged and the user is re-prompted.                          *)
(***************************************************************************)
C11_PhotoWhereTextExpected ==
    [][\A k \in Keys :
        (conv[k] \in {"CHOOSE_MEAL"} \cup NutrientStates /\ Deliver(k, Photo))
            => /\ conv'[k] = conv[k]
               /\ reply'.to = k
               /\ reply'.text \in {"invalid_meal", "not_an_integer",
                                   "out_of_range", "enter_amount"}]_vars

(***************************************************************************)
(* The nutrient validator on its own: validate_nutrient applied to a text  *)
(* and a nutrient key.                                                     *)
(***************************************************************************)
MaxValue == 3       \* integers -MaxValue .. MaxValue are written as texts

\* str(v) of an integer
RECURSIVE NatStr(_)
NatStr(n) ==
    IF n < 10 THEN <<Digits[n + 1]>>
    ELSE NatStr(n \div 10) \o <<Digits[(n % 10) + 1]>>

PyStr(v) == IF v < 0 THEN <<"-">> \o NatStr(0 - v) ELSE NatStr(v)

Values == (0 - MaxValue)..MaxValue

\* texts int() accepts that are not written by str(), and texts it refuses
OtherTexts ==
    { <<"+","1">>, <<" ","1"," ">>, <<"1","_","0">>, <<"0","1">>,
      <<>>, <<"h","i">>, <<"1",".","5">>, <<"-">>, <<"1"," ","2">>,
      <<"-","-","1">>, <<"_","1">>, <<"1","e","1">> }

ValidateTexts == {PyStr(v) : v \in Values} \cup OtherTexts

\* validate_nutrient(value, nutrient_type)
Validate ==
    /\ validation = NotCalled
    /\ validation' = Returned(validate(PyInt(value), nutrient_type))
    /\ UNCHANGED <<value, nutrient_type>>
    /\ UNCHANGED <<diary, analyzer, updater, report, store, scheduler>>

\* the next text and key to validate
NewValue ==
    /\ validation # NotCalled
    /\ \E t \in ValidateTexts, n \in NutrientKeys :
        /\ value' = t
        /\ nutrient_type' = n
    /\ validation' = NotCalled
    /\ UNCHANGED <<diary, analyzer, updater, report, store, scheduler>>

BotIdle ==
    /\ members = {}
    /\ inputs = {}
    /\ InitState

InitValidate ==
    /\ value \in ValidateTexts
    /\ nutrient_type \in NutrientKeys
    /\ validation = NotCalled
    /\ BotIdle /\ AnalyzerIdle /\ UpdaterIdle /\ ReportIdle /\ StoreIdle
    /\ SchedulerIdle

NextValidate == Validate \/ NewValue

SpecValidate == InitValidate /\ [][NextValidate]_vars

(***************************************************************************)
(* C12.  For every nutrient kind and every integer v, validate_nutrient    *)
(* of str(v) succeeds and returns v if and only if v is within the limits  *)
(* of the kind; an integer outside the limits fails with the range         *)
(* message; a text that int() does not take for an integer fails with the  *)
(* not-a-number message.                                                   *)
(***************************************************************************)
C12_ValidateNutrient ==
    validation # NotCalled =>
        LET min_val == NUTRIENT_LIMITS[nutrient_type][1]
            max_val == NUTRIENT_LIMITS[nutrient_type][2]
            r == validation.value
        IN  /\ validation.status = "returned"
            /\ \A v \in Values :
                value = PyStr(v) =>
                    /\ r.is_valid <=> (min_val <= v /\ v <= max_val)
                    /\ r.is_valid => r.value = v
                    /\ ~r.is_valid => r.error = "out_of_range"
            /\ ~PyInt(value).ok =>
                    /\ ~r.is_valid
                    /\ r.error = "not_an_integer"

\* an integer inside the limits was accepted, and an integer outside them
\* and a text that is no integer were refused, each with its message
C12_Witness ==
    /\ validation # NotCalled
    /\ \/ /\ nutrient_type = "protein"
          /\ value = PyStr(2)
          /\ validation.value.is_valid
          /\ validation.value.value = 2
       \/ /\ value = PyStr(0 - 1)
          /\ validation.value.error = "out_of_range"
       \/ /\ value = <<"1", ".", "5">>
          /\ validation.value.error = "not_an_integer"

(***************************************************************************)
(* Binary floating point as Python's float has it (IEEE 754 double, round  *)
(* to nearest, ties to even).  A float other than zero is a sign, a        *)
(* mantissa of 53 bits and the exponent of its leading bit, so that its    *)
(* magnitude is within [2^exp, 2^(exp+1)).  The leading bit is 1; the 52   *)
(* bits after it are kept as Limbs limbs of LimbBits bits, the most        *)
(* significant first.                                                      *)
(***************************************************************************)
LimbBits == 13

Limbs == 4

RECURSIVE Pow2(_)
Pow2(n) == IF n = 0 THEN 1 ELSE 2 * Pow2(n - 1)

Base == Pow2(LimbBits)

ZeroLimbs == [i \in 1..Limbs |-> 0]

FloatZero == [zero |-> TRUE, neg |-> FALSE, man |-> ZeroLimbs, exp |-> 0]

IsZero(f) == f.zero

Abs(n) == IF n < 0 THEN 0 - n ELSE n

\* the largest e >= 0 with d * 2^e <= a, for a >= d
RECURSIVE ExpUp(_, _)
ExpUp(a, d) == IF a >= 2 * d THEN 1 + ExpUp(a, 2 * d) ELSE 0

\* the least e >= 0 with a * 2^e >= d
RECURSIVE ExpDown(_, _)
ExpDown(a, d) == IF a < d THEN 1 + ExpDown(2 * a, d) ELSE 0

\* the limbs plus one; carry is 1 when every bit was 1
RECURSIVE Increment(_)
Increment(man) ==
    IF man = <<>> THEN [limbs |-> <<>>, carry |-> 1]
    ELSE LET rest == Increment(Tail(man))
             t == Head(man) + rest.carry
         IN  [limbs |-> <<t % Base>> \o rest.limbs, carry |-> t \div Base]

\* the float of the given mantissa, one unit in the last place larger when
\* up holds
Rounded(neg, man, exp, up) ==
    IF ~up THEN [zero |-> FALSE, neg |-> neg, man |-> man, exp |-> exp]
    ELSE LET r == Increment(man)
         IN  IF r.carry = 1
             THEN [zero |-> FALSE, neg |-> neg, man |-> ZeroLimbs,
                   exp |-> exp + 1]
             ELSE [zero |-> FALSE, neg |-> neg, man |-> r.limbs, exp |-> exp]

\* the limbs moved s bits (s <= LimbBits) to the right, the s bits of
\* high coming in at the top; out holds the s bits that fall off
RECURSIVE ShiftLimbs(_, _, _)
ShiftLimbs(man, high, s) ==
    IF man = <<>> THEN [limbs |-> <<>>, out |-> high]
    ELSE LET rest == ShiftLimbs(Tail(man), Head(man) % Pow2(s), s)
         IN  [limbs |-> <<high * Pow2(LimbBits - s) + Head(man) \div Pow2(s)>>
                            \o rest.limbs,
              out |-> rest.out]

\* float(n) of an integer of at most LimbBits + 1 bits: exact
FloatOfInt(n) ==
    IF n = 0 THEN FloatZero
    ELSE LET e == ExpUp(Abs(n), 1)
         IN  [zero |-> FALSE, neg |-> n < 0,
              man |-> ShiftLimbs(ZeroLimbs, Abs(n) - Pow2(e), e).limbs,
              exp |-> e]

\* the next n limbs of r / d, for r < d, and the remainder left after them
RECURSIVE DivLimbs(_, _, _)
DivLimbs(r, d, n) ==
    IF n = 0 THEN [limbs |-> <<>>, rem |-> r]
    ELSE LET rest == DivLimbs((r * Base) % d, d, n - 1)
         IN  [limbs |-> <<(r * Base) \div d>> \o rest.limbs, rem |-> rest.rem]

\* x / y of two integers, y # 0: the quotient correctly rounded
FloatDiv(x, y) ==
    IF x = 0 THEN FloatZero
    ELSE LET a == Abs(x)
             b == Abs(y)
             e == IF a >= b THEN ExpUp(a, b) ELSE 0 - ExpDown(a, b)
             num == IF e >= 0 THEN a ELSE a * Pow2(0 - e)
             den == IF e >= 0 THEN b * Pow2(e) ELSE b
             q == DivLimbs(num - den, den, Limbs)
             up == \/ 2 * q.rem > den
                   \/ 2 * q.rem = den /\ q.limbs[Limbs] % 2 = 1
         IN  Rounded((x < 0) # (y < 0), q.limbs, e, up)

\* the limbs times n; carry is what goes beyond the first limb
RECURSIVE MulLimbs(_, _)
MulLimbs(man, n) ==
    IF man = <<>> THEN [limbs |-> <<>>, carry |-> 0]
    ELSE LET rest == MulLimbs(Tail(man), n)
             t == Head(man) * n + rest.carry
         IN  [limbs |-> <<t % Base>> \o rest.limbs, carry |-> t \div Base]

\* f * n for a float f and an integer 1 <= n < Base, which a float holds
\* exactly: the product correctly rounded
FloatMulInt(f, n) ==
    IF IsZero(f) THEN FloatZero
    ELSE LET product == MulLimbs(f.man, n)
             top == n + product.carry
             extra == ExpUp(top, 1)
             shifted == ShiftLimbs(product.limbs, top - Pow2(extra), extra)
             half == Pow2(extra - 1)
             up == /\ extra >= 1
                   /\ \/ shifted.out > half
                      \/ shifted.out = half /\ shifted.limbs[Limbs] % 2 = 1
         IN  Rounded(f.neg, shifted.limbs, f.exp + extra, up)

\* |f| < |g| for two floats other than zero
MagnitudeLess(f, g) ==
    \/ f.exp < g.exp
    \/ /\ f.exp = g.exp
       /\ \E i \in 1..Limbs :
            /\ f.man[i] < g.man[i]
            /\ \A j \in 1..(i - 1) : f.man[j] = g.man[j]

\* f < g
FloatLess(f, g) ==
    IF IsZero(f) /\ IsZero(g) THEN FALSE
    ELSE IF IsZero(f) THEN ~g.neg
    ELSE IF IsZero(g) THEN f.neg
    ELSE IF f.neg # g.neg THEN f.neg
    ELSE IF f.neg THEN MagnitudeLess(g, f)
    ELSE MagnitudeLess(f, g)

(***************************************************************************)
(* nutrition_analyzer.py: the daily norms and the analyzer.                *)
(***************************************************************************)
MaxTotal == 12      \* the largest daily total of one nutrient

Nutrients == {"protein", "vegetables", "fats", "fruits", "dairy", "grains"}

NormKeys ==
    {"protein_daily", "vegetables_daily", "fats_daily", "fruits_daily",
     "dairy_daily", "grains_daily"}

\* Python's None where a dictionary is expected
None == [x \in {"None"} |-> TRUE]

\* bool(d) of a dictionary or None
Truthy(d) == d # None /\ DOMAIN d # {}

\* NutritionRecommendations(): the defaults of the dataclass
DefaultRecommendations ==
    [protein_daily |-> 5, vegetables_daily |-> 5, fats_daily |-> 3,
     fruits_daily |-> 4, dairy_daily |-> 3, grains_daily |-> 6]

\* NutritionAnalyzer.__init__: the recommendations built from user_norms
NutritionAnalyzer(norms) ==
    IF Truthy(norms)
    THEN [key \in NormKeys |->
            IF Has(norms, key) THEN norms[key] ELSE DefaultRecommendations[key]]
    ELSE DefaultRecommendations

\* the norms a user's answers can make protein_daily and fats_daily
NormValues == {0 - 5, 0, 5, 10}

TotalValues == 0..MaxTotal

\* (total / norm) * 100, for each total and each norm other than 0
Percent ==
    [total \in TotalValues \cup {MaxTotal + 1}, norm \in NormValues \ {0} |->
        FloatMulInt(FloatDiv(total, norm), 100)]

PercentOf(total, norm) ==
    IF <<total, norm>> \in DOMAIN Percent THEN Percent[total, norm]
    ELSE FloatMulInt(FloatDiv(total, norm), 100)

Float80 == FloatOfInt(80)

Float110 == FloatOfInt(110)

Float120 == FloatOfInt(120)

\* an analyzer that also has a rule for dairy
analyze_daily_intake_with_dairy_rule(t, rec) ==
    IF rec.protein_daily = 0 THEN Raised("ZeroDivisionError")
    ELSE
    LET protein_percent == PercentOf(t.protein, rec.protein_daily)
        r1 == IF FloatLess(protein_percent, Float80) THEN <<"low_protein">>
              ELSE IF FloatLess(Float120, protein_percent)
              THEN <<"high_protein">>
              ELSE <<>>
        r2 == IF t.vegetables < rec.vegetables_daily
              THEN r1 \o <<"more_vegetables">> ELSE r1
    IN  IF rec.fats_daily = 0 THEN Raised("ZeroDivisionError")
        ELSE
        LET fat_percent == PercentOf(t.fats, rec.fats_daily)
            r3 == IF FloatLess(Float110, fat_percent)
                  THEN r2 \o <<"high_fat">> ELSE r2
            r4 == IF t.fruits < rec.fruits_daily
                  THEN r3 \o <<"more_fruits">> ELSE r3
            r5 == IF t.dairy < rec.dairy_daily
                  THEN r4 \o <<"more_dairy">> ELSE r4
        IN  Returned(IF r5 = <<>> THEN <<"balanced">> ELSE r5)

\* NutritionAnalyzer.analyze_daily_intake: the list returned, or the
\* exception raised by a division
analyze_daily_intake(t, rec) ==
    IF rec.protein_daily = 0 THEN Raised("ZeroDivisionError")
    ELSE
    LET protein_percent == PercentOf(t.protein, rec.protein_daily)
        r1 == IF FloatLess(protein_percent, Float80) THEN <<"low_protein">>
              ELSE IF FloatLess(Float120, protein_percent)
              THEN <<"high_protein">>
              ELSE <<>>
        r2 == IF t.vegetables < rec.vegetables_daily
              THEN r1 \o <<"more_vegetables">> ELSE r1
    IN  IF rec.fats_daily = 0 THEN Raised("ZeroDivisionError")
        ELSE
        LET fat_percent == PercentOf(t.fats, rec.fats_daily)
            r3 == IF FloatLess(Float110, fat_percent)
                  THEN r2 \o <<"high_fat">> ELSE r2
            r4 == IF t.fruits < rec.fruits_daily
                  THEN r3 \o <<"more_fruits">> ELSE r3
        IN  Returned(IF r4 = <<>> THEN <<"balanced">> ELSE r4)

(***************************************************************************)
(* The set-norms steps (set_protein .. set_grains): the text is taken by   *)
(* int() and stored under the step's key; set_grains then writes the six   *)
(* stored values as user_norms.                                            *)
(***************************************************************************)
set_norm(ud, key, text) ==
    IF PyInt(text).ok THEN Put(ud, key, PyInt(text).value) ELSE ud

\* user_norms after a set-norms flow in which the user answered with the
\* integers protein and fats and with 5, 4, 3 and 6 for the others
SetNorms(protein, fats) ==
    LET d1 == set_norm(EmptyDict, "protein_daily", PyStr(protein))
        d2 == set_norm(d1, "vegetables_daily", PyStr(5))
        d3 == set_norm(d2, "fats_daily", PyStr(fats))
        d4 == set_norm(d3, "fruits_daily", PyStr(4))
        d5 == set_norm(d4, "dairy_daily", PyStr(3))
        d6 == set_norm(d5, "grains_daily", PyStr(6))
    IN  [key \in NormKeys |-> d6[key]]

\* the norms dictionaries an analyzer is built from: none, an empty one, a
\* partial one, and those a set-norms flow leaves
UserNorms ==
    {None, EmptyDict, [x \in {"protein_daily"} |-> 10]}
        \cup {SetNorms(p, f) : p \in NormValues, f \in NormValues}

\* the daily totals given to the analyzer
Totals ==
    {[protein |-> p, vegetables |-> v, fats |-> f, fruits |-> r,
      dairy |-> 0, grains |-> 0] :
        p \in TotalValues, v \in {4, 5}, f \in TotalValues, r \in {3, 4}}

\* a call that adjusts the protein norm to what was eaten
Analyze_adapting_norms ==
    /\ analysis' = analyze_daily_intake(totals, recommendations)
    /\ recommendations' =
            [recommendations EXCEPT !.protein_daily =
                IF totals.protein > 5 THEN 10 ELSE 5]
    /\ UNCHANGED <<user_norms, totals>>
    /\ UNCHANGED <<diary, validator, updater, report, store, scheduler>>

\* self.nutrition_analyzer.analyze_daily_intake(totals)
Analyze ==
    /\ analysis' = analyze_daily_intake(totals, recommendations)
    /\ UNCHANGED <<user_norms, recommendations, totals>>
    /\ UNCHANGED <<diary, validator, updater, report, store, scheduler>>

\* the totals after the day's total of one nutrient changed
NewTotals ==
    /\ analysis # NotCalled
    /\ totals' \in Totals
    /\ \E n \in Nutrients : \A other \in Nutrients \ {n} :
            totals'[other] = totals[other]
    /\ analysis' = NotCalled
    /\ UNCHANGED <<user_norms, recommendations>>
    /\ UNCHANGED <<diary, validator, updater, report, store, scheduler>>

\* NutritionAnalyzer(user_norms)
NewAnalyzer ==
    /\ analysis # NotCalled
    /\ user_norms' \in UserNorms
    /\ recommendations' = NutritionAnalyzer(user_norms')
    /\ analysis' = NotCalled
    /\ UNCHANGED totals
    /\ UNCHANGED <<diary, validator, updater, report, store, scheduler>>

InitAnalyze ==
    /\ user_norms \in UserNorms
    /\ recommendations = NutritionAnalyzer(user_norms)
    /\ totals \in Totals
    /\ analysis = NotCalled
    /\ BotIdle /\ ValidatorIdle /\ UpdaterIdle /\ ReportIdle /\ StoreIdle
    /\ SchedulerIdle

NextAnalyze == Analyze \/ NewTotals \/ NewAnalyzer

SpecAnalyze == InitAnalyze /\ [][NextAnalyze]_vars

\* the messages of the four rules, and the list the call returned
RuleMessages ==
    {"low_protein", "high_protein", "more_vegetables", "high_fat",
     "more_fruits"}

Contains(list, x) == \E i \in 1..Len(list) : list[i] = x

(***************************************************************************)
(* C13.  For all totals and all norms analyze_daily_intake returns a list  *)
(* that is not empty, and the list contains the balanced-diet message if   *)
(* and only if no rule fired, in which case it is the only element.        *)
(***************************************************************************)
C13_NeverEmpty ==
    analysis # NotCalled =>
        /\ analysis.status = "returned"
        /\ Len(analysis.value) >= 1
        /\ Contains(analysis.value, "balanced")
            <=> ~\E x \in RuleMessages : Contains(analysis.value, x)
        /\ Contains(analysis.value, "balanced")
            => analysis.value = <<"balanced">>

(***************************************************************************)
(* C14.  For positive norms the list holds, in this order and each         *)
(* independently of the others: the low-protein warning iff                *)
(* protein*100/protein_daily < 80, else the high-protein warning iff it is *)
(* > 120; the vegetables suggestion iff vegetables < vegetables_daily; the *)
(* high-fat warning iff fats*100/fats_daily > 110; the fruit suggestion    *)
(* iff fruits < fruits_daily.  A value exactly at a threshold emits        *)
(* nothing.                                                                *)
(***************************************************************************)
C14_Rules ==
    (/\ analysis # NotCalled
     /\ \A key \in NormKeys : recommendations[key] > 0)
        => LET rec == recommendations
               r1 == IF totals.protein * 100 < 80 * rec.protein_daily
                     THEN <<"low_protein">>
                     ELSE IF totals.protein * 100 > 120 * rec.protein_daily
                     THEN <<"high_protein">>
                     ELSE <<>>
               r2 == IF totals.vegetables < rec.vegetables_daily
                     THEN <<"more_vegetables">> ELSE <<>>
               r3 == IF totals.fats * 100 > 110 * rec.fats_daily
                     THEN <<"high_fat">> ELSE <<>>
               r4 == IF totals.fruits < rec.fruits_daily
                     THEN <<"more_fruits">> ELSE <<>>
               rules == r1 \o r2 \o r3 \o r4
           IN  /\ analysis.status = "returned"
               /\ analysis.value =
                    IF rules = <<>> THEN <<"balanced">> ELSE rules

(***************************************************************************)
(* C15.  When protein_daily or fats_daily is zero or negative,             *)
(* analyze_daily_intake skips that percentage check, emits no warning for  *)
(* it and completes without an arithmetic failure.                         *)
(***************************************************************************)
C15_NonPositiveNormSkipped ==
    analysis # NotCalled =>
        /\ recommendations.protein_daily <= 0 =>
            /\ analysis.status = "returned"
            /\ ~Contains(analysis.value, "low_protein")
            /\ ~Contains(analysis.value, "high_protein")
        /\ recommendations.fats_daily <= 0 =>
            /\ analysis.status = "returned"
            /\ ~Contains(analysis.value, "high_fat")

(***************************************************************************)
(* C16.  The output of analyze_daily_intake depends neither on the dairy   *)
(* and grains totals nor on the dairy_daily and grains_daily norms: a call *)
(* that differs only in those four inputs returns the same.                *)
(***************************************************************************)
OtherValues == {0, 1, 7}

C16_DairyGrainsIgnored ==
    analysis # NotCalled =>
        \A d \in OtherValues, g \in OtherValues,
           dd \in OtherValues, gd \in OtherValues :
            analyze_daily_intake(
                [totals EXCEPT !.dairy = d, !.grains = g],
                [recommendations EXCEPT !.dairy_daily = dd,
                                        !.grains_daily = gd]) = analysis

\* the analyzer returned a list for totals with no dairy, below the dairy
\* norm
C16_Witness ==
    /\ analysis.status = "returned"
    /\ totals.dairy < recommendations.dairy_daily
    /\ Len(analysis.value) = 2

MaxEntries == 3     \* entries of one report

ImagePathSet == {"p1", "p2", "p3"}

\* where the report is written
ReportPath == "report"

\* what the file system holds at a path: a file that opens, a file that
\* does not open, or nothing; at ReportPath "broken" stands for a document
\* that cannot be rendered (no directory to write to, no font registered)
FileStates == {"ok", "broken", "missing"}

\* one minute of the day as strftime("%H:%M") writes it
TimeStr(minute) ==
    LET h == minute \div 60
        m == minute % 60
    IN  <<Digits[(h \div 10) + 1], Digits[(h % 10) + 1], ":",
          Digits[(m \div 10) + 1], Digits[(m % 10) + 1]>>

\* the entries a report is made of
DiaryEntries ==
    { [meal_time |-> <<"O","b","e","d">>, protein |-> 2, vegetables |-> 1,
       fats |-> 0, fruits |-> 1, dairy |-> 0, grains |-> 1,
       image_paths |-> <<"p1", "p2">>, timestamp |-> 485],
      [meal_time |-> <<"U","z","h","i","n">>, protein |-> 3, vegetables |-> 0,
       fats |-> 1, fruits |-> 0, dairy |-> 2, grains |-> 0,
       image_paths |-> <<>>, timestamp |-> 1140],
      [meal_time |-> <<"O","b","e","d">>, protein |-> 4, vegetables |-> 2,
       fats |-> 2, fruits |-> 3, dairy |-> 1, grains |-> 2,
       image_paths |-> <<"p3">>, timestamp |-> 780] }

Paragraph(text, style) == [text |-> text, style |-> style]

\* the columns of the table, in order
Columns == <<"protein", "vegetables", "fats", "fruits", "dairy", "grains">>

HeaderRow ==
    <<Paragraph(<<"m","e","a","l">>, "TableHeader")>>
    \o [i \in 1..Len(Columns) |-> Paragraph(<<"n", PyStr(i)[1]>>, "TableHeader")]
    \o <<Paragraph(<<"t","i","m","e">>, "TableHeader")>>

EntryRow(entry) ==
    <<Paragraph(entry.meal_time, "TableCell")>>
    \o [i \in 1..Len(Columns) |->
            Paragraph(PyStr(entry[Columns[i]]), "TableCell")]
    \o <<Paragraph(TimeStr(entry.timestamp), "TableCell")>>

TotalsRow(t) ==
    <<Paragraph(<<"s","u","m">>, "TableHeader")>>
    \o [i \in 1..Len(Columns) |-> Paragraph(PyStr(t[Columns[i]]), "TableHeader")]
    \o <<Paragraph(<<>>, "none")>>

ZeroTotals == [n \in Nutrients |-> 0]

\* the loop of _create_table_data: the rows and the totals after the
\* entries given, starting from the rows and totals so far
RECURSIVE TableLoop(_, _, _)
TableLoop(es, data, t) ==
    IF es = <<>> THEN [data |-> data, totals |-> t]
    ELSE LET entry == Head(es)
         IN  TableLoop(Tail(es),
                       Append(data, EntryRow(entry)),
                       [n \in Nutrients |-> t[n] + entry[n]])

\* a table whose totals row is the row of the last entry
create_table_data_last_entry(es) ==
    LET loop == TableLoop(es, <<HeaderRow>>, ZeroTotals)
        last == IF es = <<>> THEN ZeroTotals
                ELSE [n \in Nutrients |-> es[Len(es)][n]]
    IN  [data |-> Append(loop.data, TotalsRow(last)), totals |-> last]

\* PDFReportGenerator._create_table_data
create_table_data(es) ==
    LET loop == TableLoop(es, <<HeaderRow>>, ZeroTotals)
    IN  [data |-> Append(loop.data, TotalsRow(loop.totals)),
         totals |-> loop.totals]

\* bool(obj) of a NutritionRecommendations object: the dataclass defines
\* neither __bool__ nor __len__, so every instance is true
InstanceTruthy(obj) == TRUE

\* the norms block of generate: the six lines
NormsBlock(rec) ==
    IF InstanceTruthy(rec)
    THEN [kind |-> "norms",
          lines |-> << PyStr(rec.protein_daily), PyStr(rec.vegetables_daily),
                       PyStr(rec.fats_daily), PyStr(rec.fruits_daily),
                       PyStr(rec.dairy_daily), PyStr(rec.grains_daily) >>]
    ELSE [kind |-> "norms",
          lines |-> << <<"?">>, <<"?">>, <<"?">>, <<"?">>, <<"?">>, <<"?">> >>]

\* PDFReportGenerator._add_image: the block of one image, nothing when the
\* image does not open
add_image(entry, image_path, fs) ==
    IF fs[image_path] = "ok"
    THEN << [kind |-> "image", meal_time |-> entry.meal_time,
             image_path |-> image_path,
             time |-> TimeStr(entry.timestamp)] >>
    ELSE <<>>

\* the images of one entry, in the order of its image_paths
RECURSIVE EntryImages(_, _, _)
EntryImages(entry, paths, fs) ==
    IF paths = <<>> THEN <<>>
    ELSE (IF fs[Head(paths)] # "missing"
          THEN add_image(entry, Head(paths), fs)
          ELSE <<>>)
         \o EntryImages(entry, Tail(paths), fs)

\* image blocks that end at the first image that does not open
RECURSIVE image_blocks_until_failure(_, _)
image_blocks_until_failure(es, fs) ==
    IF es = <<>> THEN <<>>
    ELSE LET paths == Head(es).image_paths
         IN  IF \E i \in 1..Len(paths) : fs[paths[i]] # "ok"
             THEN <<>>
             ELSE EntryImages(Head(es), paths, fs)
                    \o image_blocks_until_failure(Tail(es), fs)

\* the loop of generate over the entries and their images
RECURSIVE image_blocks(_, _)
image_blocks(es, fs) ==
    IF es = <<>> THEN <<>>
    ELSE EntryImages(Head(es), Head(es).image_paths, fs)
            \o image_blocks(Tail(es), fs)

\* PDFReportGenerator.__init__: user_id, date and the path of the report
PDFReportGenerator(user_id, date) ==
    [user_id |-> user_id,
     date |-> date,
     pdf_path |-> <<"r","e","p","o","r","t","s","/">> \o PyStr(user_id)
                    \o <<"_">> \o date \o <<".","p","d","f">>]

\* a generate that lets the exception of a failed step reach its caller
assemble_raising(self, es, rec, fs, data, advice) ==
    IF advice.status = "returned" /\ fs[ReportPath] = "ok"
    THEN [status |-> "returned", value |-> self.pdf_path, built |-> TRUE,
          elements |->
            << [kind |-> "title"],
               NormsBlock(rec),
               [kind |-> "table", data |-> data],
               [kind |-> "recommendations", list |-> advice.value] >>
            \o image_blocks(es, fs)]
    ELSE [status |-> "raised", value |-> None, built |-> FALSE,
          elements |-> <<>>]

\* the end of generate (bot.py:605-629), the table being made and the
\* analyzer asked: the document and the value returned.  No document is
\* built when the analyzer raised or when the document cannot be rendered
\* to its path: the exception is caught and None is returned
assemble(self, es, rec, fs, data, advice) ==
    IF advice.status = "returned" /\ fs[ReportPath] = "ok"
    THEN [status |-> "returned", value |-> self.pdf_path, built |-> TRUE,
          elements |->
            << [kind |-> "title"],
               NormsBlock(rec),
               [kind |-> "table", data |-> data],
               [kind |-> "recommendations", list |-> advice.value] >>
            \o image_blocks(es, fs)]
    ELSE [status |-> "returned", value |-> None, built |-> FALSE,
          elements |-> <<>>]

\* PDFReportGenerator(user_id, date, user_norms).generate(entries): the
\* totals of the table are handed to the analyzer by _create_recommendations
Generate ==
    /\ document = NotCalled
    /\ totals' = create_table_data(entries).totals
    /\ analysis' = analyze_daily_intake(totals', recommendations)
    /\ document' = assemble(generator, entries, recommendations, files,
                            create_table_data(entries).data, analysis')
    /\ UNCHANGED <<user_norms, recommendations, entries, files>>
    /\ UNCHANGED <<diary, validator, updater, generator, store, scheduler>>

\* one more entry is stored for the day; the next report is not built yet
EntryAdded ==
    /\ document # NotCalled
    /\ Len(entries) < MaxEntries
    /\ \E entry \in DiaryEntries : entries' = Append(entries, entry)
    /\ document' = NotCalled
    /\ totals' = EmptyDict
    /\ analysis' = NotCalled
    /\ UNCHANGED <<user_norms, recommendations, files>>
    /\ UNCHANGED <<diary, validator, updater, generator, store, scheduler>>

RECURSIVE SeqsUpTo(_, _)
SeqsUpTo(S, n) ==
    IF n = 0 THEN {<<>>}
    ELSE LET shorter == SeqsUpTo(S, n - 1)
         IN  shorter \cup {Append(q, x) : q \in shorter, x \in S}

\* the users and dates reports are built for
ReportUsers == {7, 42}

ReportDates ==
    { <<"2","0","2","4","-","0","1","-","0","5">>,
      <<"2","0","2","4","-","1","2","-","3","1">> }

\* the norms dictionaries a report is built with
ReportNorms ==
    {None, EmptyDict, [x \in {"protein_daily"} |-> 10],
     SetNorms(10, 10), SetNorms(0, 5)}

InitReport ==
    /\ entries \in SeqsUpTo(DiaryEntries, MaxEntries)
    /\ files \in [ImagePathSet \cup {ReportPath} -> FileStates]
    /\ files[ReportPath] # "missing"
    /\ user_norms \in ReportNorms
    /\ recommendations = NutritionAnalyzer(user_norms)
    /\ totals = EmptyDict
    /\ analysis = NotCalled
    /\ document = NotCalled
    /\ \E user_id \in ReportUsers, date \in ReportDates :
            generator = PDFReportGenerator(user_id, date)
    /\ BotIdle /\ ValidatorIdle /\ UpdaterIdle /\ StoreIdle
    /\ SchedulerIdle

NextReport == Generate \/ EntryAdded

SpecReport == InitReport /\ [][NextReport]_vars

\* the sum of nutrient n over the entries
RECURSIVE SumOver(_, _)
SumOver(es, n) ==
    IF es = <<>> THEN 0
    ELSE SumOver(SubSeq(es, 1, Len(es) - 1), n) + es[Len(es)][n]

\* every photo of every entry, in entry order and then photo order, each
\* with its entry
RECURSIVE Photos(_)
Photos(es) ==
    IF es = <<>> THEN <<>>
    ELSE Photos(SubSeq(es, 1, Len(es) - 1))
         \o [i \in 1..Len(es[Len(es)].image_paths) |->
                [entry |-> es[Len(es)],
                 image_path |-> es[Len(es)].image_paths[i]]]

\* the photos among them that open
RECURSIVE Loadable(_, _)
Loadable(photos, fs) ==
    IF photos = <<>> THEN <<>>
    ELSE (IF fs[Head(photos).image_path] = "ok" THEN <<Head(photos)>> ELSE <<>>)
         \o Loadable(Tail(photos), fs)

(***************************************************************************)
(* C18.  The table of the report has one row per entry, in input order,    *)
(* followed by one totals row whose value for each of the six nutrients is *)
(* the sum of that nutrient over all entries, and these totals are the     *)
(* ones handed to the analyzer.                                            *)
(***************************************************************************)
C18_TableAndTotals ==
    document # NotCalled =>
        /\ \A n \in Nutrients : totals[n] = SumOver(entries, n)
        /\ document.built =>
            LET data == document.elements[3].data
            IN  /\ document.elements[3].kind = "table"
                /\ Len(data) = Len(entries) + 2
                /\ \A i \in 1..Len(entries) :
                    /\ data[i + 1][1].text = entries[i].meal_time
                    /\ \A c \in 1..Len(Columns) :
                        data[i + 1][c + 1].text = PyStr(entries[i][Columns[c]])
                /\ \A c \in 1..Len(Columns) :
                    data[Len(data)][c + 1].text
                        = PyStr(SumOver(entries, Columns[c]))

\* a report of three entries with protein 2, 3 and 4 was built: the totals
\* row shows 9
C18_Witness ==
    /\ document # NotCalled
    /\ document.built
    /\ Len(entries) = 3
    /\ entries[1].protein = 2 /\ entries[2].protein = 3
    /\ entries[3].protein = 4
    /\ document.elements[3].data[5][2].text = <<"9">>
    /\ totals.protein = 9

(***************************************************************************)
(* C19.  The report holds, after the title, the norms block, the table and *)
(* the recommendations, one image block per photo of every entry, in entry *)
(* order and then photo order; an image that does not load is skipped: the *)
(* build is not aborted and the order of the other image blocks is kept.   *)
(***************************************************************************)
C19_ImageBlocks ==
    document # NotCalled =>
        /\ (analysis.status = "returned" /\ files[ReportPath] = "ok")
                => document.built
        /\ document.built =>
            LET expected == Loadable(Photos(entries), files)
                blocks == SubSeq(document.elements, 5, Len(document.elements))
            IN  /\ document.elements[1].kind = "title"
                /\ document.elements[2].kind = "norms"
                /\ document.elements[3].kind = "table"
                /\ document.elements[4].kind = "recommendations"
                /\ Len(blocks) = Len(expected)
                /\ \A i \in 1..Len(blocks) :
                    /\ blocks[i].kind = "image"
                    /\ blocks[i].image_path = expected[i].image_path
                    /\ blocks[i].meal_time = expected[i].entry.meal_time

\* a report was built although the first photo of the first entry does not
\* open; the photos after it have their blocks
C19_Witness ==
    /\ document # NotCalled
    /\ document.built
    /\ Len(entries) = 2
    /\ entries[1].image_paths = <<"p1", "p2">>
    /\ entries[2].image_paths = <<"p3">>
    /\ files["p1"] = "broken" /\ files["p2"] = "ok" /\ files["p3"] = "ok"
    /\ Len(document.elements) = 6
    /\ document.elements[5].image_path = "p2"
    /\ document.elements[6].image_path = "p3"

(***************************************************************************)
(* C20.  When the report is built for a user with no custom norms          *)
(* (user_norms absent or empty) the norms block shows a '?' for each of    *)
(* the six nutrients; when custom norms exist it shows their values.       *)
(***************************************************************************)
C20_NormsPlaceholders ==
    (document # NotCalled /\ document.built) =>
        LET lines == document.elements[2].lines
        IN  IF Truthy(user_norms)
            THEN lines = << PyStr(recommendations.protein_daily),
                            PyStr(recommendations.vegetables_daily),
                            PyStr(recommendations.fats_daily),
                            PyStr(recommendations.fruits_daily),
                            PyStr(recommendations.dairy_daily),
                            PyStr(recommendations.grains_daily) >>
            ELSE \A i \in 1..6 : lines[i] = <<"?">>

(***************************************************************************)
(* The set-norms conversation (set_norms_conv_handler), registered after   *)
(* conv_handler: it sees an update only when no earlier handler took it.   *)
(***************************************************************************)
\* a set_norms_start that empties the session
set_norms_start_clearing_session(k, m, ret) ==
    /\ reply' = Reply(k, "enter_norm", norm_steps[1][2])
    /\ ret = "SET_PROTEIN"
    /\ user_data' = [user_data EXCEPT ![UserOf(k)] = EmptyDict]
    /\ UNCHANGED <<meals, meal_photos>>

set_norms_start(k, m, ret) ==
    /\ reply' = Reply(k, "enter_norm", norm_steps[1][2])
    /\ ret = "SET_PROTEIN"
    /\ UNCHANGED <<user_data, meals, meal_photos>>

\* set_protein .. set_grains: the handler of the conversation's state n
set_norm_step(k, m, n, ret) ==
    LET idx == NormIndex(n)
        key == norm_steps[idx][2]
        ud == user_data[UserOf(k)]
        stored_ud == set_norm(ud, key, m.text)
    IN  IF ~Parsed[m].int.ok
        THEN /\ reply' = Reply(k, "enter_integer", key)
             /\ ret = n
             /\ UNCHANGED <<user_data, meals, meal_photos>>
        ELSE IF idx < Len(norm_steps)
        THEN /\ user_data' = [user_data EXCEPT ![UserOf(k)] = stored_ud]
             /\ reply' = Reply(k, "enter_norm", norm_steps[idx + 1][2])
             /\ ret = norm_steps[idx + 1][1]
             /\ UNCHANGED <<meals, meal_photos>>
        ELSE /\ user_data' = [user_data EXCEPT ![UserOf(k)] =
                    Put(stored_ud, "user_norms",
                        [f \in NormKeys |-> Get(stored_ud, f, None)])]
             /\ reply' = Reply(k, "norms_saved", "")
             /\ ret = END
             /\ UNCHANGED <<meals, meal_photos>>

NormReturns == NormStates \cup {END}

NormsUpdate(k, ret) == norms_conv' = [norms_conv EXCEPT ![k] = ret]

\* the history variable after a step of set-norms conversation k: nothing
\* when the conversation has ended or has just started, and the integer of
\* each step that was passed
NormsEntered(k, m) ==
    LET before == norms_conv[k]
        after == norms_conv'[k]
    IN  norms_entered' = [norms_entered EXCEPT ![k] =
            IF after = END \/ before = END THEN EmptyDict
            ELSE IF after # before
            THEN Put(@, norm_steps[NormIndex(before)][2], Parsed[m].int.value)
            ELSE @]

\* MessageHandler(filters.Regex('^/set_norms$'), set_norms_start)
MessageSetNorms(k, m) ==
    /\ Route(conv[k], m) = "message_set_norms"
    /\ \E ret \in NormReturns : set_norms_start(k, m, ret)
    /\ UNCHANGED <<env, conv, norms_conv, uploaded, entered, norms_entered>>

\* set_norms_conv_handler, entry point CommandHandler('set_norms', ...)
EntrySetNorms(k, m) ==
    /\ Route(conv[k], m) = "none"
    /\ NormsRoute(norms_conv[k], m) = "entry_set_norms"
    /\ \E ret \in NormReturns : set_norms_start(k, m, ret) /\ NormsUpdate(k, ret)
    /\ NormsEntered(k, m)
    /\ UNCHANGED <<env, conv, uploaded, entered>>

SetNorm(k, m) ==
    /\ Route(conv[k], m) = "none"
    /\ NormsRoute(norms_conv[k], m) = "set_norm"
    /\ \E ret \in NormReturns :
            set_norm_step(k, m, norms_conv[k], ret) /\ NormsUpdate(k, ret)
    /\ NormsEntered(k, m)
    /\ UNCHANGED <<env, conv, uploaded, entered>>

\* set_norms_conv_handler, fallback CommandHandler('cancel', cancel)
NormsFallbackCancel(k, m) ==
    /\ Route(conv[k], m) = "none"
    /\ NormsRoute(norms_conv[k], m) = "norms_fallback_cancel"
    /\ \E ret \in NormReturns : cancel(k, m, ret) /\ NormsUpdate(k, ret)
    /\ NormsEntered(k, m)
    /\ UNCHANGED <<env, conv, uploaded, entered>>

\* the steps of a bot whose users run both conversations
NextFlows ==
    \/ \E k \in members, m \in inputs : WithinBounds(k, m) /\ MessageAdd(k, m)
          /\ UNCHANGED <<norms_conv, norms_entered, validator, analyzer, updater, report, store, scheduler>>
    \/ \E k \in members, m \in inputs : WithinBounds(k, m) /\ MessageCancel(k, m)
          /\ UNCHANGED <<norms_conv, norms_entered, validator, analyzer, updater, report, store, scheduler>>
    \/ \E k \in members, m \in inputs : WithinBounds(k, m) /\ EntryAdd(k, m)
          /\ UNCHANGED <<norms_conv, norms_entered, validator, analyzer, updater, report, store, scheduler>>
    \/ \E k \in members, m \in inputs : WithinBounds(k, m) /\ ChooseMeal(k, m)
          /\ UNCHANGED <<norms_conv, norms_entered, validator, analyzer, updater, report, store, scheduler>>
    \/ \E k \in members, m \in inputs : WithinBounds(k, m) /\ UploadPhotos(k, m)
          /\ UNCHANGED <<norms_conv, norms_entered, validator, analyzer, updater, report, store, scheduler>>
    \/ \E k \in members, m \in inputs : WithinBounds(k, m) /\ HandleInput(k, m)
          /\ UNCHANGED <<norms_conv, norms_entered, validator, analyzer, updater, report, store, scheduler>>
    \/ \E k \in members, m \in inputs : WithinBounds(k, m) /\ FallbackCancel(k, m)
          /\ UNCHANGED <<norms_conv, norms_entered, validator, analyzer, updater, report, store, scheduler>>
    \/ \E k \in members, m \in inputs : WithinBounds(k, m) /\ NoHandler(k, m)
          /\ UNCHANGED <<norms_conv, norms_entered, validator, analyzer, updater, report, store, scheduler>>
    \/ \E k \in members, m \in inputs : WithinBounds(k, m) /\ MessageSetNorms(k, m)
          /\ UNCHANGED <<validator, analyzer, updater, report, store, scheduler>>
    \/ \E k \in members, m \in inputs : WithinBounds(k, m) /\ EntrySetNorms(k, m)
          /\ UNCHANGED <<validator, analyzer, updater, report, store, scheduler>>
    \/ \E k \in members, m \in inputs : WithinBounds(k, m) /\ SetNorm(k, m)
          /\ UNCHANGED <<validator, analyzer, updater, report, store, scheduler>>
    \/ \E k \in members, m \in inputs : WithinBounds(k, m) /\ NormsFallbackCancel(k, m)
          /\ UNCHANGED <<validator, analyzer, updater, report, store, scheduler>>

\* one user in one chat who uses both conversations
InitFlows ==
    /\ members = {<<"c1", "u1">>}
    /\ inputs = {TextMessage(t) : t \in
                    {T_add, T_add_bot, T_cancel, T_cancel_bot, T_done,
                     T_set_norms, T_set_norms_bot, <<"O","b","e","d">>,
                     <<"h","i">>, <<"1">>}}
    /\ InitState
    /\ ValidatorIdle /\ AnalyzerIdle /\ UpdaterIdle /\ ReportIdle /\ StoreIdle
    /\ SchedulerIdle

SpecFlows == InitFlows /\ [][NextFlows]_vars

\* what the environment may send in a run about the set-norms flow: updates
\* are delivered until the sender's norms have been written
NormsUnwritten(k) == ~Has(user_data[UserOf(k)], "user_norms")

\* the steps of a bot whose user sends only what the set-norms flow takes
NextNorms ==
    \/ \E k \in members, m \in inputs : NormsUnwritten(k) /\ MessageSetNorms(k, m)
          /\ UNCHANGED <<validator, analyzer, updater, report, store, scheduler>>
    \/ \E k \in members, m \in inputs : NormsUnwritten(k) /\ EntrySetNorms(k, m)
          /\ UNCHANGED <<validator, analyzer, updater, report, store, scheduler>>
    \/ \E k \in members, m \in inputs : NormsUnwritten(k) /\ SetNorm(k, m)
          /\ UNCHANGED <<validator, analyzer, updater, report, store, scheduler>>
    \/ \E k \in members, m \in inputs : NormsUnwritten(k) /\ NormsFallbackCancel(k, m)
          /\ UNCHANGED <<validator, analyzer, updater, report, store, scheduler>>
    \/ \E k \in members, m \in inputs : NormsUnwritten(k) /\ NoHandler(k, m)
          /\ UNCHANGED <<norms_conv, norms_entered, validator, analyzer, updater, report, store, scheduler>>

\* what a user who sets norms sends: flows answered with two numbers, or
\* flows with refused answers, cancellations and the plain command
NormsInputs ==
    { {TextMessage(t) : t \in {T_set_norms_bot, <<"1">>, <<"2">>}},
      {TextMessage(t) : t \in
        {T_set_norms, T_set_norms_bot, T_cancel_bot, <<"1">>, <<"h","i">>}}
        \cup {Photo} }

\* one user who sets norms in two chats
InitNorms ==
    /\ members = {<<"c1", "u1">>, <<"c2", "u1">>}
    /\ inputs \in NormsInputs
    /\ InitState
    /\ ValidatorIdle /\ AnalyzerIdle /\ UpdaterIdle /\ ReportIdle
    /\ StoreIdle /\ SchedulerIdle

SpecNorms == InitNorms /\ [][NextNorms]_vars

\* what two users of one chat send: an add-entry flow to its end, flows
\* that are cancelled and started again, set-norms flows, a set-norms flow
\* beside a started add-entry flow, and the plain commands
UserInputs ==
    { {TextMessage(t) : t \in
        {T_add_bot, T_done, <<"O","b","e","d">>, <<"U","z","h","i","n">>,
         <<"1">>}},
      {TextMessage(t) : t \in
        {T_add_bot, T_cancel_bot, <<"O","b","e","d">>, <<"h","i">>}} \cup {Photo},
      {TextMessage(t) : t \in
        {T_set_norms_bot, T_cancel_bot, <<"1">>, <<"h","i">>}},
      {TextMessage(t) : t \in
        {T_add_bot, T_set_norms_bot, <<"O","b","e","d">>, <<"1">>}},
      {TextMessage(t) : t \in {T_add, T_cancel, T_set_norms}} }

InitUsers ==
    /\ members = {<<"c1", "u1">>, <<"c1", "u2">>}
    /\ inputs \in UserInputs
    /\ InitState
    /\ ValidatorIdle /\ AnalyzerIdle /\ UpdaterIdle /\ ReportIdle /\ StoreIdle
    /\ SchedulerIdle

SpecUsers == InitUsers /\ [][NextFlows]_vars

(***************************************************************************)
(* NutritionRecommendations.update_recommendations.  new_values is the     *)
(* list of the dictionary's items in iteration order; the keys of a        *)
(* dictionary are distinct.                                                *)
(***************************************************************************)
MaxItems == 2       \* the most items of one new_values dictionary

\* f"{nutrient}_daily"
DailyAttr(nutrient) == nutrient \o "_daily"

\* hasattr(self, name) for a name that ends in "_daily": the six fields
HasAttr(self, name) == name \in DOMAIN self

\* setattr(self, name, value)
SetAttr(self, name, v) == [self EXCEPT ![name] = v]

RECURSIVE UpdateLoop(_, _)
UpdateLoop(self, items) ==
    IF items = <<>> THEN self
    ELSE LET nutrient == Head(items)[1]
             item_value == Head(items)[2]
         IN  UpdateLoop(IF HasAttr(self, DailyAttr(nutrient))
                        THEN SetAttr(self, DailyAttr(nutrient), item_value)
                        ELSE self,
                        Tail(items))

\* an update that starts from the defaults of the dataclass
update_recommendations_from_defaults(self, items) ==
    UpdateLoop(DefaultRecommendations, items)

update_recommendations(self, items) == UpdateLoop(self, items)

\* the keys and values a caller passes: nutrients, a field name, a name of
\* no nutrient, the empty string
UpdateKeys == {"protein", "fats", "grains", "protein_daily", "calories", ""}

UpdateValues == {0, 7}

NewValues ==
    {items \in SeqsUpTo(UpdateKeys \X UpdateValues, MaxItems) :
        \A i, j \in 1..Len(items) : items[i][1] = items[j][1] => i = j}

\* recommendations.update_recommendations(new_values)
Update ==
    /\ updated = NotCalled
    /\ recommendations' = update_recommendations(recommendations, new_values)
    /\ updated' = Returned(None)
    /\ UNCHANGED <<user_norms, totals, analysis, new_values>>
    /\ UNCHANGED <<diary, validator, report, store, scheduler>>

\* the caller makes the next dictionary
NextValues ==
    /\ updated # NotCalled
    /\ new_values' \in NewValues
    /\ updated' = NotCalled
    /\ UNCHANGED <<analyzer, diary, validator, report, store, scheduler>>

InitUpdate ==
    /\ recommendations = DefaultRecommendations
    /\ user_norms = EmptyDict
    /\ totals = EmptyDict
    /\ analysis = NotCalled
    /\ new_values \in NewValues
    /\ updated = NotCalled
    /\ BotIdle /\ ValidatorIdle /\ ReportIdle /\ StoreIdle
    /\ SchedulerIdle

NextUpdate == Update \/ NextValues

SpecUpdate == InitUpdate /\ [][NextUpdate]_vars

(***************************************************************************)
(* set_reminders: the jobs of the chat kept in chat_data['reminder_jobs']  *)
(* are removed, then one daily job per time is scheduled.                  *)
(***************************************************************************)
\* the name datetime in bot.py: "from datetime import datetime" binds it to
\* the class datetime.datetime, not to the module
datetime == "datetime.datetime"

MOSCOW_TZ == "Europe/Moscow"

\* datetime.time(hour=, minute=, tzinfo=): of the module datetime this is the
\* class time; of the class datetime it is the method time(self), and the
\* call without an instance raises TypeError
datetime_time(hour, minute, tzinfo) ==
    IF datetime = "datetime"
    THEN Returned([hour |-> hour, minute |-> minute, tzinfo |-> tzinfo])
    ELSE Raised("TypeError")

times ==
    << <<"0","8",":","0","0">>, <<"1","2",":","0","0">>,
       <<"1","8",":","0","0">> >>

\* time_str.split(':')
SplitTime(time_str) ==
    LET colon == Find(time_str, {":"}, 1)
    IN  << SubSeq(time_str, 1, colon - 1),
           SubSeq(time_str, colon + 1, Len(time_str)) >>

\* job_queue.run_daily(send_reminder, time=, chat_id=, name=)
run_daily(time, chat_id, time_str) ==
    [callback |-> "send_reminder", time |-> time, chat_id |-> chat_id,
     name |-> <<"reminder", time_str, chat_id>>]

\* the loop over times from its i-th turn: the queue and the list
\* reminder_jobs it ends with, or the exception that ends it
RECURSIVE ScheduleLoop(_, _, _, _)
ScheduleLoop(i, chat_id, queue, reminder_jobs) ==
    IF i > Len(times)
    THEN [status |-> "returned", queue |-> queue, reminder_jobs |-> reminder_jobs]
    ELSE LET parts == SplitTime(times[i])
             time == datetime_time(PyInt(parts[1]).value, PyInt(parts[2]).value,
                                   MOSCOW_TZ)
             job == run_daily(time.value, chat_id, times[i])
         IN  IF time.status = "raised"
             THEN [status |-> "raised", queue |-> queue,
                   reminder_jobs |-> reminder_jobs]
             ELSE ScheduleLoop(i + 1, chat_id, Append(queue, job),
                               Append(reminder_jobs, job))

\* the jobs of a queue that are not in a list: job.schedule_removal() of each
Removed(queue, jobs) ==
    SelectSeq(queue, LAMBDA job : \A i \in 1..Len(jobs) : jobs[i] # job)

set_reminders(k, m) ==
    LET chat_id == ChatOf(k)
        cd == chat_data[chat_id]
        had == Has(cd, "reminder_jobs")
        queue == IF had THEN Removed(job_queue, cd["reminder_jobs"]) ELSE job_queue
        cleared == IF had THEN Put(cd, "reminder_jobs", <<>>) ELSE cd
        loop == ScheduleLoop(1, chat_id, queue, <<>>)
    IN  /\ job_queue' = loop.queue
        /\ IF loop.status = "raised"
           THEN /\ chat_data' = [chat_data EXCEPT ![chat_id] = cleared]
                /\ reply' = NoReply(k)
           ELSE /\ chat_data' = [chat_data EXCEPT ![chat_id] =
                        Put(cleared, "reminder_jobs", loop.reminder_jobs)]
                /\ reply' = Reply(k, "reminders_set", "")
        /\ UNCHANGED <<user_data, meals, meal_photos>>

\* MessageHandler(filters.Regex('^/reminders$'), set_reminders)
MessageReminders(k, m) ==
    /\ Route(conv[k], m) = "message_reminders"
    /\ set_reminders(k, m)
    /\ UNCHANGED <<env, conv, norms_conv, uploaded, entered, norms_entered>>

\* the steps of a bot whose user also sends /reminders
NextReminders ==
    \/ Next
    \/ \E k \in members, m \in inputs : WithinBounds(k, m) /\ MessageReminders(k, m)
          /\ UNCHANGED <<validator, analyzer, updater, report, store>>

InitReminders ==
    /\ members = {<<"c1", "u1">>}
    /\ inputs = {TextMessage(t) : t \in
                    {T_reminders, T_add, T_add_bot, T_cancel, T_cancel_bot,
                     T_done, <<"O","b","e","d">>, <<"h","i">>, <<"1">>}}
    /\ InitState
    /\ ValidatorIdle /\ AnalyzerIdle /\ UpdaterIdle /\ ReportIdle
    /\ StoreIdle /\ SchedulerIdle

SpecReminders == InitReminders /\ [][NextReminders]_vars

(***************************************************************************)
(* database.add_entry statement by statement.  sqlite3 opens a transaction *)
(* before the first INSERT of a connection; the rows a connection has      *)
(* inserted reach the tables at commit(), and are discarded when the       *)
(* connection is closed or deallocated with the transaction open.  Every   *)
(* statement can raise sqlite3.Error; add_entry catches nothing.           *)
(***************************************************************************)
\* the database as one statement finds or leaves it
Database(conn, ms, ps) == [connection |-> conn, meals |-> ms, meal_photos |-> ps]

\* a cursor.execute that writes its row to the table at once
execute_autocommit(db, table, row) ==
    IF table = "meals"
    THEN Database(db.connection, Append(db.meals, row), db.meal_photos)
    ELSE Database(db.connection, db.meals, Append(db.meal_photos, row))

\* cursor.execute('INSERT INTO <table> ...'): the row joins the transaction
execute(db, table, row) ==
    Database([db.connection EXCEPT ![table] = Append(@, row)],
             db.meals, db.meal_photos)

\* cursor.lastrowid after the INSERT INTO meals
lastrowid(db) == Len(db.meals) + Len(db.connection.meals)

\* conn.commit()
commit(db) ==
    Database([db.connection EXCEPT !.meals = <<>>, !.meal_photos = <<>>],
             db.meals \o db.connection.meals,
             db.meal_photos \o db.connection.meal_photos)

\* the arguments of the calls
StorePaths == {<<"u1", 0>>, <<"u1", 1>>}

StoreCalls ==
    [user_id : Users,
     date : {0},
     meal_time : {<<"O","b","e","d">>, <<"U","z","h","i","n">>},
     values : {[n \in NutrientKeys |-> 1]},
     image_paths : SeqsUpTo(StorePaths, MaxPhotos),
     timestamp : {0}]

\* a call that has just been made, with the tables as it found them
Called(args) ==
    [status |-> "running", pc |-> "connect", args |-> args, i |-> 1,
     meal_id |-> 0, meals_before |-> meals, photos_before |-> meal_photos]

\* the meals row of a call
MealRow(args) ==
    [user_id |-> args.user_id, date |-> args.date, meal_time |-> args.meal_time,
     protein |-> args.values.protein, vegetables |-> args.values.vegetables,
     fats |-> args.values.fats, fruits |-> args.values.fruits,
     dairy |-> args.values.dairy, grains |-> args.values.grains,
     timestamp |-> args.timestamp]

Running(pc) == call.status = "running" /\ call.pc = pc

\* the statement at which the call stands raises
StatementRaises ==
    /\ call.status = "running"
    /\ call' = [call EXCEPT !.status = "raised"]
    /\ UNCHANGED <<connection, meals, meal_photos>>

\* conn = sqlite3.connect(DB_NAME); cursor = conn.cursor()
Connect ==
    /\ Running("connect")
    /\ connection' = [NoConnection EXCEPT !.open = TRUE]
    /\ call' = [call EXCEPT !.pc = "insert_meal"]
    /\ UNCHANGED <<meals, meal_photos>>

\* the database after a statement
Becomes(db) ==
    /\ connection' = db.connection
    /\ meals' = db.meals
    /\ meal_photos' = db.meal_photos

\* INSERT INTO meals; meal_id = cursor.lastrowid
InsertMeal ==
    /\ Running("insert_meal")
    /\ LET db == execute(Database(connection, meals, meal_photos),
                          "meals", MealRow(call.args))
       IN  /\ Becomes(db)
           /\ call' = [call EXCEPT
                    !.meal_id = lastrowid(db),
                    !.pc = IF call.args.image_paths = <<>>
                           THEN "commit" ELSE "insert_photo"]

\* one turn of the loop over image_paths: INSERT INTO meal_photos
InsertPhoto ==
    /\ Running("insert_photo")
    /\ Becomes(execute(Database(connection, meals, meal_photos), "meal_photos",
                       [meal_id |-> call.meal_id,
                        image_path |-> call.args.image_paths[call.i]]))
    /\ call' = [call EXCEPT
            !.i = @ + 1,
            !.pc = IF call.i = Len(call.args.image_paths)
                   THEN "commit" ELSE "insert_photo"]

Commit ==
    /\ Running("commit")
    /\ Becomes(commit(Database(connection, meals, meal_photos)))
    /\ call' = [call EXCEPT !.pc = "close"]

\* conn.close(), and the return
Close ==
    /\ Running("close")
    /\ connection' = NoConnection
    /\ call' = [call EXCEPT !.status = "returned"]
    /\ UNCHANGED <<meals, meal_photos>>

\* the connection of a call that raised is deallocated once the exception
\* has been handled: sqlite3 closes it and its transaction is rolled back
Deallocate ==
    /\ call.status = "raised"
    /\ connection.open
    /\ connection' = NoConnection
    /\ UNCHANGED <<call, meals, meal_photos>>

\* the next call of add_entry
NextCall ==
    /\ call.status \in {"returned", "raised"}
    /\ ~connection.open
    /\ Len(meals) < MaxMeals
    /\ \E args \in StoreCalls : call' = Called(args)
    /\ UNCHANGED <<connection, meals, meal_photos>>

\* what a call of add_entry leaves alone
StoreFrame ==
    UNCHANGED <<env, conv, norms_conv, user_data, reply, uploaded, entered,
                norms_entered, validator, analyzer, updater, report, scheduler>>

InitStore ==
    /\ members = {}
    /\ inputs = {}
    /\ InitState
    /\ \E args \in StoreCalls : call = Called(args)
    /\ connection = NoConnection
    /\ ValidatorIdle /\ AnalyzerIdle /\ UpdaterIdle /\ ReportIdle
    /\ SchedulerIdle

NextStore ==
    \/ Connect /\ StoreFrame
    \/ InsertMeal /\ StoreFrame
    \/ InsertPhoto /\ StoreFrame
    \/ Commit /\ StoreFrame
    \/ Close /\ StoreFrame
    \/ StatementRaises /\ StoreFrame
    \/ Deallocate /\ StoreFrame
    \/ NextCall /\ StoreFrame

SpecStore == InitStore /\ [][NextStore]_vars

(***************************************************************************)
(* The start of the process on its own, in every environment.              *)
(***************************************************************************)
InitStartup ==
    /\ environ \in Environs
    /\ process = "import"
    /\ handlers = <<>>
    /\ members = {}
    /\ inputs = {}
    /\ InitSession
    /\ ValidatorIdle /\ AnalyzerIdle /\ UpdaterIdle /\ ReportIdle /\ StoreIdle
    /\ SchedulerIdle

NextStartup ==
    \/ ImportConfig
          /\ UNCHANGED <<members, inputs, session, validator, analyzer, updater, report, store, scheduler>>
    \/ InitDb
          /\ UNCHANGED <<members, inputs, session, validator, analyzer, updater, report, store, scheduler>>
    \/ BuildApplication
          /\ UNCHANGED <<members, inputs, session, validator, analyzer, updater, report, store, scheduler>>
    \/ AddHandler
          /\ UNCHANGED <<members, inputs, session, validator, analyzer, updater, report, store, scheduler>>
    \/ RunPolling
          /\ UNCHANGED <<members, inputs, session, validator, analyzer, updater, report, store, scheduler>>

SpecStartup == InitStartup /\ [][NextStartup]_vars

(***************************************************************************)
(* C21.  generate returns the path reports/{user_id}_{date}.pdf when the   *)
(* build succeeds, and returns None, raising nothing to its caller, when a *)
(* step of assembling or rendering the document fails.                     *)
(***************************************************************************)
C21_PathOrNone ==
    document # NotCalled =>
        /\ document.status = "returned"
        /\ IF analysis.status = "returned" /\ files[ReportPath] = "ok"
           THEN \E u \in ReportUsers, d \in ReportDates :
                    /\ generator.user_id = u
                    /\ generator.date = d
                    /\ document.value
                        = <<"r","e","p","o","r","t","s","/">> \o PyStr(u)
                            \o <<"_">> \o d \o <<".","p","d","f">>
           ELSE document.value = None

\* the analyzer raised while the recommendations were made: generate
\* returned None
C21_Witness ==
    /\ document # NotCalled
    /\ analysis.status = "raised"
    /\ files[ReportPath] = "ok"
    /\ document.status = "returned"
    /\ document.value = None

(***************************************************************************)
(* C22.  A photo sent in UploadPhoto whose download or whose saving fails  *)
(* is answered with an apology; the state stays UploadPhoto and the photo  *)
(* accumulator, like the rest of the session, is as it was.  A photo that  *)
(* is answered as saved has added exactly its one path.                    *)
(***************************************************************************)
C22_PhotoFailureRecovered ==
    [][\A k \in Keys :
        (conv[k] = "UPLOAD_PHOTO" /\ Deliver(k, Photo))
            => /\ conv'[k] = "UPLOAD_PHOTO"
               /\ reply'.to = k
               /\ IF reply'.text = "photo_saved"
                  THEN Len(ImagePaths(user_data'[UserOf(k)]))
                        = Len(ImagePaths(user_data[UserOf(k)])) + 1
                  ELSE /\ reply'.text \in {"photo_download_error",
                                           "photo_save_error"}
                       /\ user_data' = user_data]_vars

\* saving a photo failed after another photo had been accepted: the flow is
\* in UploadPhoto and the accumulator holds the one accepted photo
C22_Witness ==
    /\ reply.text = "photo_save_error"
    /\ conv[reply.to] = "UPLOAD_PHOTO"
    /\ uploaded[reply.to] = 1
    /\ Len(ImagePaths(user_data[UserOf(reply.to)])) = 1

\* the store raised in this step: a grains value that passes validation was
\* delivered to conversation k in EnterGrains and no entry was written
StoreRaised(k, m) ==
    /\ conv[k] = "ENTER_GRAINS"
    /\ TextInput(m)
    /\ validate_nutrient(m, "grains").is_valid
    /\ Deliver(k, m)
    /\ meals' = meals

C24_ConfigurationErrorFatal ==
    (\/ environ.TELEGRAM_BOT_TOKEN \in {"None", ""}
     \/ FONT_PATH(environ.system) \notin environ.fonts)
        => handlers = <<>> /\ process # "polling"

\* the norm field of a nutrient, and the items of a list that name a key
FieldOf ==
    [protein |-> "protein_daily", vegetables |-> "vegetables_daily",
     fats |-> "fats_daily", fruits |-> "fruits_daily",
     dairy |-> "dairy_daily", grains |-> "grains_daily"]

ItemsFor(items, key) == {i \in 1..Len(items) : items[i][1] = key}

(***************************************************************************)
(* C25.  update_recommendations overwrites exactly the norm fields of the  *)
(* nutrients named by the keys of its argument with the given values and   *)
(* leaves every other norm field unchanged; a key that names no nutrient   *)
(* changes nothing and adds no field.                                      *)
(***************************************************************************)
C25_UpdateRecommendations ==
    [][(updated = NotCalled /\ updated' # NotCalled) =>
        /\ DOMAIN recommendations' = NormKeys
        /\ \A n \in Nutrients :
            IF ItemsFor(new_values, n) = {}
            THEN recommendations'[FieldOf[n]] = recommendations[FieldOf[n]]
            ELSE \A i \in ItemsFor(new_values, n) :
                    recommendations'[FieldOf[n]] = new_values[i][2]]_vars

\* an update by a nutrient and by a name of no nutrient, after an earlier
\* update had changed another field
C25_Witness ==
    /\ updated # NotCalled
    /\ ItemsFor(new_values, "protein") # {}
    /\ ItemsFor(new_values, "calories") # {}
    /\ recommendations.protein_daily \in UpdateValues
    /\ recommendations.grains_daily = 7
    /\ recommendations.fats_daily = 3

\* an update of conversation k taken by some handler or by none
Handled(k, m) ==
    \/ Deliver(k, m)
    \/ MessageSetNorms(k, m)
    \/ EntrySetNorms(k, m)
    \/ SetNorm(k, m)
    \/ NormsFallbackCancel(k, m)

(***************************************************************************)
(* C26.  Sessions of different users are independent: an update handled    *)
(* for user A (a step of either flow, a cancel, a save) leaves both        *)
(* conversation states and the whole session of every other user B as they *)
(* were, and an entry saved for A is A's row with the meal slot, the       *)
(* values and the photos of A's own session.                               *)
(***************************************************************************)
C26_UsersIndependent ==
    [][\A k \in members, m \in inputs :
        Handled(k, m) =>
            /\ \A other \in Keys :
                    other[2] # k[2] =>
                        /\ conv'[other] = conv[other]
                        /\ norms_conv'[other] = norms_conv[other]
            /\ \A b \in Users \ {k[2]} : user_data'[b] = user_data[b]
            /\ Len(meals') = Len(meals) + 1 =>
                    LET row == meals'[Len(meals')]
                        own == user_data[k[2]]
                    IN  /\ row.user_id = k[2]
                        /\ row.meal_time = own["meal_time"]
                        /\ \A n \in NutrientKeys \ {"grains"} :
                                row[n] = Get(own, n, 0)
                        /\ row.grains = Parsed[m].int.value
                        /\ meal_photos' = meal_photos \o
                                [i \in 1..Len(ImagePaths(own)) |->
                                    [meal_id |-> Len(meals'),
                                     image_path |-> ImagePaths(own)[i]]]]_vars

\* the first user's entry is stored while the second user is in the middle
\* of a flow with another meal slot
C26_Witness ==
    /\ meals # <<>>
    /\ meals[1].user_id = "u1"
    /\ meals[1].meal_time = <<"O","b","e","d">>
    /\ conv[<<"c1", "u2">>] \in NutrientStates
    /\ Has(user_data["u2"], "meal_time")
    /\ user_data["u2"]["meal_time"] = <<"U","z","h","i","n">>

\* the keys each conversation stores in the session, and a session's part
AddFlowKeys == NutrientKeys \cup {"meal_time", "current_state", "image_paths"}

NormFlowKeys == NormKeys \cup {"user_norms"}

Restrict(d, keys) == [x \in DOMAIN d \cap keys |-> d[x]]

\* an update handled by conv_handler, by set_norms_conv_handler
AddFlowStep(k, m) ==
    \/ EntryAdd(k, m)
    \/ ChooseMeal(k, m)
    \/ UploadPhotos(k, m)
    \/ HandleInput(k, m)
    \/ FallbackCancel(k, m)

NormsFlowStep(k, m) ==
    \/ EntrySetNorms(k, m)
    \/ SetNorm(k, m)
    \/ NormsFallbackCancel(k, m)

(***************************************************************************)
(* C27.  The add-entry flow and the set-norms flow are independent: a step *)
(* handled by the add-entry flow leaves the set-norms state and the stored *)
(* *_daily norms as they were, and a step handled by the set-norms flow    *)
(* leaves the add-entry state and the stored meal slot, nutrient values,   *)
(* photo list and current_state as they were, in every interleaving of the *)
(* two flows of one user.                                                  *)
(***************************************************************************)
C27_FlowsIndependent ==
    [][\A k \in members, m \in inputs :
        /\ AddFlowStep(k, m) =>
                /\ norms_conv' = norms_conv
                /\ Restrict(user_data'[UserOf(k)], NormFlowKeys)
                        = Restrict(user_data[UserOf(k)], NormFlowKeys)
        /\ NormsFlowStep(k, m) =>
                /\ conv' = conv
                /\ Restrict(user_data'[UserOf(k)], AddFlowKeys)
                        = Restrict(user_data[UserOf(k)], AddFlowKeys)]_vars

\* the set-norms flow was started in the middle of an add-entry flow, after
\* an earlier set-norms flow had stored its norms, and the add-entry flow
\* has taken the next number
C27_Witness ==
    \E k \in members :
        /\ conv[k] = "ENTER_VEGETABLES"
        /\ norms_conv[k] = "SET_PROTEIN"
        /\ reply = Reply(k, "enter_amount", "vegetables")
        /\ Has(user_data[UserOf(k)], "protein")
        /\ Has(user_data[UserOf(k)], "user_norms")

(***************************************************************************)
(* C28.  Whenever handle_input takes a text for a conversation whose       *)
(* active state is the nutrient state S, the current_state recorded in the *)
(* sender's session is S, in every interleaving, also when one user runs   *)
(* add-entry flows in two chats.                                           *)
(***************************************************************************)
C28_CurrentStateMatchesConversation ==
    [][\A k \in members, m \in inputs :
        (conv[k] \in NutrientStates /\ HandleInput(k, m))
            => /\ Has(user_data[UserOf(k)], "current_state")
               /\ user_data[UserOf(k)]["current_state"] = conv[k]]_vars

\* the keys a flow passes before its save: the meal slot and the five values
\* before grains
FlowKeys == {"meal_time"} \cup (NutrientKeys \ {"grains"})

(***************************************************************************)
(* C29.  Every entry written by the save carries the meal slot chosen and  *)
(* the six values validated during the flow that triggered the save: the   *)
(* saving conversation has itself taken the meal slot and the five values  *)
(* before grains, and the row holds them, so neither a value left in the   *)
(* session by another flow nor a default 0 is stored.                      *)
(***************************************************************************)
C29_EntryFromItsOwnFlow ==
    [][\A k \in members, m \in inputs :
        (HandleInput(k, m) /\ Len(meals') = Len(meals) + 1)
            => /\ entered[k] = FlowKeys
               /\ LET row == meals'[Len(meals')]
                      ud == user_data[UserOf(k)]
                  IN  /\ \A key \in FlowKeys :
                            Has(ud, key) /\ row[key] = ud[key]
                      /\ row.grains = Parsed[m].int.value]_vars

(***************************************************************************)
(* C30.  The photo list of a stored entry consists only of photos uploaded *)
(* during the flow that saved it: the save writes as many photo rows as    *)
(* that flow accepted photos, the last ones the session accumulated.       *)
(***************************************************************************)
C30_PhotosOfTheSavingFlow ==
    [][\A k \in members, m \in inputs :
        (HandleInput(k, m) /\ Len(meals') = Len(meals) + 1)
            => LET paths == ImagePaths(user_data[UserOf(k)])
                   own == SubSeq(paths, Len(paths) - uploaded[k] + 1, Len(paths))
               IN  /\ Len(meal_photos') - Len(meal_photos) = uploaded[k]
                   /\ \A i \in 1..uploaded[k] :
                        meal_photos'[Len(meal_photos) + i].image_path = own[i]]_vars

\* the photo rows of a call whose meal row has the id meal_id
PhotoRows(args, meal_id) ==
    [i \in 1..Len(args.image_paths) |->
        [meal_id |-> meal_id, image_path |-> args.image_paths[i]]]

(***************************************************************************)
(* C31.  add_entry persists the meal row and its photo rows as one unit:   *)
(* at every moment of a call and after it, whether it returned or raised   *)
(* part-way, the tables hold either what they held before the call, or     *)
(* that and the meal row with one photo row per image path; after a call   *)
(* that returned they hold the latter.                                     *)
(***************************************************************************)
C31_AddEntryAtomic ==
    call # NotCalled =>
        LET all ==
                /\ meals = Append(call.meals_before, MealRow(call.args))
                /\ meal_photos = call.photos_before
                        \o PhotoRows(call.args, Len(meals))
            neither ==
                /\ meals = call.meals_before
                /\ meal_photos = call.photos_before
        IN  /\ all \/ neither
            /\ call.status = "returned" => all

\* a call with two image paths raised at the second photo row, after the
\* meal row and the first photo row had been inserted, and its connection
\* is gone
C31_Witness ==
    /\ call # NotCalled
    /\ call.status = "raised"
    /\ call.pc = "insert_photo"
    /\ call.i = 2
    /\ ~connection.open
    /\ meals = <<>>
    /\ meal_photos = <<>>

\* the daily jobs of a chat in the queue, and the three times of day
JobsOf(chat_id) == SelectSeq(job_queue', LAMBDA job : job.chat_id = chat_id)

ReminderTimes ==
    {[hour |-> h, minute |-> 0, tzinfo |-> "Europe/Moscow"] : h \in {8, 12, 18}}

(***************************************************************************)
(* C32.  After every /reminders command of a chat the chat has exactly     *)
(* three daily reminder jobs, at 08:00, 12:00 and 18:00 Moscow time: the   *)
(* jobs scheduled before are removed, so repeated commands neither         *)
(* accumulate jobs nor leave the chat with none.                           *)
(***************************************************************************)
C32_ThreeReminderJobs ==
    [][\A k \in members, m \in inputs :
        MessageReminders(k, m)
            => /\ Len(JobsOf(ChatOf(k))) = 3
               /\ {JobsOf(ChatOf(k))[i].time : i \in 1..3} = ReminderTimes
               /\ chat_data'[ChatOf(k)]["reminder_jobs"] = JobsOf(ChatOf(k))]_vars

\* the user_norms record of a session, None when there is none
UserNormsOf(ud) == Get(ud, "user_norms", None)

(***************************************************************************)
(* C33.  The set-norms flow starts in SET_PROTEIN and passes its six       *)
(* states in the fixed order; a non-integer input keeps the state and      *)
(* stores nothing; user_norms is written only by the step that succeeds in *)
(* SET_GRAINS, and then holds exactly the six integers entered in the flow *)
(* of that step.                                                           *)
(***************************************************************************)
C33_SetNormsFlow ==
    [][\A k \in members, m \in inputs :
        /\ EntrySetNorms(k, m) => norms_conv'[k] = norm_steps[1][1]
        /\ SetNorm(k, m) =>
                LET idx == NormIndex(norms_conv[k])
                    ud == user_data'[UserOf(k)]
                IN  IF ~Parsed[m].int.ok
                    THEN /\ norms_conv'[k] = norms_conv[k]
                         /\ user_data' = user_data
                    ELSE IF idx < Len(norm_steps)
                    THEN /\ norms_conv'[k] = norm_steps[idx + 1][1]
                         /\ ud[norm_steps[idx][2]] = Parsed[m].int.value
                         /\ UserNormsOf(ud) = UserNormsOf(user_data[UserOf(k)])
                    ELSE /\ norms_conv'[k] = END
                         /\ UserNormsOf(ud)
                                = Put(norms_entered[k], "grains_daily",
                                      Parsed[m].int.value)
        /\ (MessageSetNorms(k, m) \/ EntrySetNorms(k, m)
                \/ NormsFallbackCancel(k, m) \/ NoHandler(k, m))
                => UserNormsOf(user_data'[UserOf(k)])
                        = UserNormsOf(user_data[UserOf(k)])]_vars

====
